---- MODULE Spec2Model ----
(***************************************************************************)
(* Toucan / Mesa runtime core: plugin registration and conflict policy     *)
(* (src/src/scheduler.ts), the class based plugin registry                 *)
(* (src/src/plugin.ts, src/src/app.ts) and the call-site keyed hook state  *)
(* store (src/unnamed/part_007, src/src/std/ids.ts).                       *)
(*                                                                         *)
(* The specifications of this module:                                      *)
(*   Spec       the Scheduler of scheduler.ts: plugin registration         *)
(*   SpecTicks  the Scheduler of scheduler.ts: systems and update ticks    *)
(*   SpecApp    App + PluginRegistry of app.ts / plugin.ts                 *)
(*   SpecHooks  useHookState / cleanupHookState / useThrottle              *)
(*   SpecPhases App.addPhaseAfter / App.addPhaseBefore                     *)
(*   SpecThrottle useThrottle / useThrottledMemo / cleanupHookState        *)
(*   SpecFrames useHookState / cleanupHookState, frame after frame         *)
(*   SpecAppFair SpecApp with buildAll making progress                     *)
(*   SpecLoop   the Scheduler of scheduler.ts: the passes over the         *)
(*              pipelines (runAll, Heartbeat and the other events)         *)
(*   SpecEqual  deepEqual of util.ts on argument tuples                    *)
(*   SpecEntries useHookState with any initial value and cleanup           *)
(*   SpecSources hooks of systems bound to different RunService events     *)
(*   SpecQuery  Query.added, Query.find and syncObserved over the world    *)
(***************************************************************************)
EXTENDS Integers, Sequences, FiniteSets, TLC

VARIABLES
    \* ---- scheduler.ts ----
    plugins,      \* Plugin entities in creation order: [build, built, args, external, parent]
    systems,      \* System entities in creation order: [callback, phase, scheduled, parent]
    graph,        \* system indices in the order scheduler.addSystem received them
    pc,           \* "setup" (before run()), "idle" (outside ABSOLUTE_FIRST), "building" (in
                  \* buildPlugins), "scheduled" (scheduleSystems ran, buildPlugins is next)
    queue,        \* the filtered and sorted array buildPlugins still has to walk
    cur,          \* index of the plugin whose build callback is on the call stack, 0 if none
    calls,        \* number of usePlugin/useSystem calls made by user or plugin code
    last,         \* outcome of the most recent usePlugin call
    buildLog,     \* every builder invocation so far: [build, args]
    tickPlugins,  \* inside ABSOLUTE_FIRST: number of plugin records when the tick began
    tickSystems,  \* inside ABSOLUTE_FIRST: number of system records when the tick began
    \* ---- topoRuntime (part_007), std hooks ----
    keyStorage,       \* key -> [state, accessed, cleanup]
    frameCallCounts,  \* baseKey -> calls counted this frame (0: no entry)
    clock,            \* os.clock()
    lastCall,         \* the latest hook store operation: a call and the entry it resolved to, or a cleanup
    frameTotal,       \* hook calls made in the current frame
    frameKeys,        \* baseKey -> the keys the calls without a discriminator resolved to this frame, in call order
    frameFalsy,       \* baseKeys called this frame with a discriminator that `if (identifier)` rejects
    sinceAccess,      \* key -> cleanupHookState calls since a call last resolved to it (2: two or more, 3: never called)
    lastEvaluated,    \* the entries whose cleanup predicate the latest cleanupHookState called, until the next hook call
    lastVotes,        \* the answers of the custom predicates at the latest cleanupHookState, until the next hook call
    \* ---- app.ts (latest App), plugin.ts ----
    objs,         \* the plugin instances constructed so far: [cls, args, owner, built, builds]
    registry,     \* PluginRegistry.plugins: class (metatable) -> instance
    appPc,        \* "setup", "buildAll" (loop test), "pass" (for loop), "runAll", "running", "failed"
    builtCount,   \* buildAll's local counter
    iter,         \* what is left of the array the for loop of buildAll walks
    appStack,     \* the instances whose build(app) is on the call stack, innermost last
    adds,         \* addPlugins calls made by user or plugin code
    appLast,      \* outcome of the most recent PluginRegistry.add
    passLog,      \* owners of the plugins built so far in the current pass of buildAll
    running,      \* App.running
    \* ---- app.ts (phases of the App's pipelines), std/phases ----
    pipelines,    \* pipeline -> its phases in running order
    phaseLast,    \* the most recent addPhaseAfter / addPhaseBefore call and whether it raised
    \* ---- std hooks useThrottle / useThrottledMemo, as a caller observes them ----
    lastTrue,     \* discriminator -> os.clock() of the latest useThrottle call of the site that returned true
    memo,         \* useThrottledMemo at its site: latest factory value, when it was made, latest return value
    \* ---- topoRuntime (part_007), what callers and predicates see over the frames ----
    prevFrameKeys,  \* frameKeys of the previous frame, as the latest cleanupHookState found it
    resolved,       \* <<baseKey, discriminator>> -> the entry the latest such call returned, while it exists
    \* ---- scheduler.ts, the passes of the Planck scheduler over the pipelines ----
    runAllPc,     \* "no" (runAll not reached), "startup" (runAll called), "events" (its startup pass
                  \* is over), "done" (runAll returned, RunService events drive the pipelines)
    source,       \* what drives the latest pass over UPDATE_PIPELINE: "none", "runAll", "Heartbeat"
    stage,        \* phases of UPDATE_PIPELINE begun in the pass in progress, 0 between passes
    cleanups,     \* cleanupHookState calls in the latest pass over UPDATE_PIPELINE (2: two or more)
    late,         \* a system of FIRST..LAST ran after cleanupHookState in that pass
    topoBefore,   \* topoRuntimePlugin was built when that pass began
    invokedBy,    \* everything that has driven a call of cleanupHookState so far
    \* ---- util.ts ----
    eqA,          \* first argument of deepEqual
    eqB,          \* second argument of deepEqual
    eqRet,        \* whether deepEqual was called, and what it returned for (eqA, eqB), (eqB, eqA), (eqA, eqA)
    \* ---- query.ts (part_009) and the ObserverPlugin (part_015) over the jecs world ----
    withC,        \* the ids that have component C
    withPrev,     \* the ids that have pair(Previous, C)
    observed,     \* C has the Observed tag
    framePos,     \* "before" / "after" the system that runs query().added(C) in the update tick in progress
    track,        \* id -> the latest addition of C to it: ticks that reported it, syncObserved
                  \* runs since, and whether it was made before the querying system to a bare id
    findRet       \* the latest Query.find call: its query, the ids of the query that passed
                  \* its filters and predicate, and what it returned

schedVars ==
    <<plugins, systems, graph, pc, queue, cur, calls, last, buildLog, tickPlugins, tickSystems>>

hookVars ==
    <<keyStorage, frameCallCounts, clock, lastCall, frameTotal, frameKeys, frameFalsy,
      sinceAccess, lastEvaluated, lastVotes>>

appVars ==
    <<objs, registry, appPc, builtCount, iter, appStack, adds, appLast, passLog, running>>

phaseVars == <<pipelines, phaseLast>>

timingVars == <<lastTrue, memo>>

frameVars == <<prevFrameKeys, resolved>>

loopVars == <<runAllPc, source, stage, cleanups, late, topoBefore, invokedBy>>

utilVars == <<eqA, eqB, eqRet>>

worldVars == <<withC, withPrev, observed, framePos, track, findRet>>

vars ==
    <<schedVars, hookVars, appVars, phaseVars, timingVars, frameVars, loopVars, utilVars,
      worldVars>>

(***************************************************************************)
(* Bounds                                                                  *)
(***************************************************************************)
MaxCalls == 3
MaxFrameCalls == 2
MaxEntries == 2
MaxClock == 2
MaxAdds == 3
MaxPhases == 2
MaxTupleLen == 2
MaxIds == 2

(***************************************************************************)
(* Lua values: numbers and array-like tables.                              *)
(***************************************************************************)
Num(n) == [type |-> "number", val |-> n, items |-> <<>>, nan |-> FALSE]
Tab(s) == [type |-> "table", val |-> 0, items |-> s, nan |-> FALSE]

\* 0/0: a number that === finds different from every value, itself included.
NaN == [type |-> "number", val |-> 0, items |-> <<>>, nan |-> TRUE]

\* a === b for two values that are no tables.
RawEqual(a, b) == a.type = b.type /\ a.val = b.val /\ ~a.nan /\ ~b.nan

RawEqualBits(a, b) == a.type = b.type /\ a.val = b.val /\ a.nan = b.nan

NoArgs == Tab(<<>>)

\* Argument tuples a registration may carry (the rest array of usePlugin).
ArgChoices == {Tab(<<Num(1)>>), Tab(<<Num(2)>>), Tab(<<Tab(<<Num(1)>>)>>)}

RECURSIVE deepEqualBroken(_, _)
deepEqualBroken(a, b) ==
    IF a.type # "table" /\ a.type = b.type /\ a.val = b.val THEN TRUE
    ELSE IF a.type # b.type THEN FALSE
    ELSE IF a.type = "table" THEN Len(a.items) = Len(b.items)
    ELSE FALSE

\* util.ts deepEqual: a === b, then type, then size and key-by-key recursion.
\* Two tables are === only when they are one object, and then the recursion
\* gives TRUE as well, so reference identity needs no separate case.
RECURSIVE deepEqual(_, _)
deepEqual(a, b) ==
    IF a.type # "table" /\ RawEqual(a, b) THEN TRUE
    ELSE IF a.type # b.type THEN FALSE
    ELSE IF a.type = "table" THEN
        IF Len(a.items) # Len(b.items) THEN FALSE
        ELSE \A k \in 1..Len(a.items) : deepEqual(a.items[k], b.items[k])
    ELSE FALSE

(***************************************************************************)
(* scheduler.ts                                                            *)
(***************************************************************************)
\* Plugin builders. debug.info(build, 'a') counts the scheduler parameter too.
Builders == {"pluginA", "pluginB", "topoRuntimePlugin"}

\* The builders user and plugin code registers; run() registers the standard one.
UserBuilders == {"pluginA", "pluginB"}

Arity(build) == IF build = "pluginA" THEN 2 ELSE 1

Callbacks == {"sysA", "sysB"}

UserPhases == {"UPDATE"}

\* query(Plugin).find((_, p) => p.build === build): 0 stands for undefined.
FindPlugin(build) ==
    IF \E i \in 1..Len(plugins) : plugins[i].build = build
    THEN CHOOSE i \in 1..Len(plugins) : plugins[i].build = build
    ELSE 0

NoError ==
    [raised |-> FALSE, existingSource |-> "", incomingSource |-> "",
     existingArgs |-> NoArgs, newArgs |-> NoArgs]

ConflictError(isExistingExternal, isIncomingExternal, existingArgs, newArgs) ==
    [raised |-> TRUE,
     existingSource |-> IF isExistingExternal THEN "external plugin" ELSE "user code",
     incomingSource |-> IF isIncomingExternal THEN "external plugin" ELSE "user code",
     existingArgs |-> existingArgs, newArgs |-> newArgs]

\* parent !== undefined && parent.has(External)
HasExternal(p) == p # 0 /\ plugins[p].external

validatePluginConflictNoPrecedence(existing, build, newArgs, incomingParent) ==
    LET isIncomingExternal == HasExternal(incomingParent)
        isExistingExternal == HasExternal(plugins[existing].parent)
        existingArgs == plugins[existing].args
    IN  IF Arity(build) = 1 THEN NoError
        ELSE IF deepEqual(existingArgs, newArgs) THEN NoError
        ELSE ConflictError(isExistingExternal, isIncomingExternal, existingArgs, newArgs)

validatePluginConflictLenient(existing, build, newArgs, incomingParent) ==
    LET isIncomingExternal == HasExternal(incomingParent)
        isExistingExternal == HasExternal(plugins[existing].parent)
        existingArgs == plugins[existing].args
    IN  IF Arity(build) = 1 THEN NoError
        ELSE IF ~isExistingExternal \/ ~isIncomingExternal THEN NoError
        ELSE IF deepEqual(existingArgs, newArgs) THEN NoError
        ELSE ConflictError(isExistingExternal, isIncomingExternal, existingArgs, newArgs)

validatePluginConflictSwapped(existing, build, newArgs, incomingParent) ==
    LET isIncomingExternal == HasExternal(incomingParent)
        isExistingExternal == HasExternal(plugins[existing].parent)
        existingArgs == plugins[existing].args
    IN  IF Arity(build) = 1 THEN NoError
        ELSE IF ~isExistingExternal /\ isIncomingExternal THEN NoError
        ELSE IF deepEqual(existingArgs, newArgs) THEN NoError
        ELSE ConflictError(isExistingExternal, isIncomingExternal, newArgs, newArgs)

validatePluginConflictNoArity(existing, build, newArgs, incomingParent) ==
    LET isIncomingExternal == HasExternal(incomingParent)
        isExistingExternal == HasExternal(plugins[existing].parent)
        existingArgs == plugins[existing].args
    IN  IF ~isExistingExternal /\ isIncomingExternal THEN NoError
        ELSE IF deepEqual(existingArgs, newArgs) THEN NoError
        ELSE ConflictError(isExistingExternal, isIncomingExternal, existingArgs, newArgs)

\* The error value (or NoError) validatePluginConflict ends with.
validatePluginConflict(existing, build, newArgs, incomingParent) ==
    LET isIncomingExternal == HasExternal(incomingParent)
        isExistingExternal == HasExternal(plugins[existing].parent)
        existingArgs == plugins[existing].args
    IN  IF Arity(build) = 1 THEN NoError
        ELSE IF ~isExistingExternal /\ isIncomingExternal THEN NoError
        ELSE IF deepEqual(existingArgs, newArgs) THEN NoError
        ELSE ConflictError(isExistingExternal, isIncomingExternal, existingArgs, newArgs)

\* What one usePlugin call found and did; handle is the entity spawnPlugin
\* returned (0: it raised).
CallRecord(build, args, parent, existing, err) ==
    [build |-> build, args |-> args,
     existing |-> existing,
     parent |-> parent,
     incomingExternal |-> HasExternal(parent),
     existingExternal |-> existing # 0 /\ HasExternal(plugins[existing].parent),
     existingArgs |-> IF existing # 0 THEN plugins[existing].args ELSE NoArgs,
     existingBuilt |-> existing # 0 /\ plugins[existing].built,
     countBefore |-> Len(plugins),
     handle |-> IF err.raised THEN 0
                ELSE IF existing # 0 THEN existing
                ELSE Len(plugins) + 1,
     err |-> err]

NoCall ==
    [build |-> "", args |-> NoArgs, existing |-> 0, parent |-> 0, incomingExternal |-> FALSE,
     existingExternal |-> FALSE, existingArgs |-> NoArgs, existingBuilt |-> FALSE,
     countBefore |-> 0, handle |-> 0, err |-> NoError]

PluginEntity(build, args, ext, parent) ==
    [build |-> build, built |-> FALSE, args |-> args, external |-> ext, parent |-> parent]

SystemEntity(callback, phase, parent) ==
    [callback |-> callback, phase |-> phase, scheduled |-> FALSE, parent |-> parent]

\* The plugin array after spawnPlugin(build, ...args) called below `parent`,
\* with isExternal() answering ext.
spawnPluginAlways(build, args, parent, ext) ==
    Append(plugins, PluginEntity(build, args, ext, parent))

spawnPluginLastWins(build, args, parent, ext) ==
    IF FindPlugin(build) # 0
    THEN [plugins EXCEPT ![FindPlugin(build)].args = args, ![FindPlugin(build)].parent = parent]
    ELSE Append(plugins, PluginEntity(build, args, ext, parent))

spawnPlugin(build, args, parent, ext) ==
    IF FindPlugin(build) # 0 THEN plugins
    ELSE Append(plugins, PluginEntity(build, args, ext, parent))

markBuiltNever(ps, i) == ps

\* p.built = true, before p.build(...) is called
markBuilt(ps, i) == [ps EXCEPT ![i].built = TRUE]

spawnSystem(callback, phase, parent) ==
    Append(systems, SystemEntity(callback, phase, parent))

\* An update tick begins: the record counts at that moment.
TickBegins ==
    /\ tickPlugins' = Len(plugins)
    /\ tickSystems' = Len(systems)

\* ABSOLUTE_FIRST of the tick is over.
TickFirstEnds ==
    /\ tickPlugins' = 0
    /\ tickSystems' = 0

\* Code runs user-side calls at top level (before run(), between ticks, inside
\* systems) or inside the build callback of plugin cur.
CanCall == pc \in {"setup", "idle"} \/ (pc = "building" /\ cur # 0)

\* Scheduler.usePlugin: spawnPlugin, whose error (if any) unwinds the builder
\* and the buildPlugins run that invoked it.
UsePlugin(build, args, ext) ==
    /\ UNCHANGED <<hookVars, appVars, phaseVars, timingVars, frameVars, loopVars, utilVars, worldVars>>
    /\ CanCall
    /\ calls < MaxCalls
    /\ LET existing == FindPlugin(build)
           err == IF existing # 0
                  THEN validatePluginConflict(existing, build, args, cur)
                  ELSE NoError
       IN  /\ last' = CallRecord(build, args, cur, existing, err)
           /\ IF err.raised
              THEN /\ plugins' = spawnPlugin(build, args, cur, ext)
                   /\ IF pc = "building"
                      THEN pc' = "idle" /\ cur' = 0 /\ queue' = <<>> /\ TickFirstEnds
                      ELSE UNCHANGED <<pc, cur, queue, tickPlugins, tickSystems>>
              ELSE /\ plugins' = spawnPlugin(build, args, cur, ext)
                   /\ UNCHANGED <<pc, cur, queue, tickPlugins, tickSystems>>
    /\ calls' = calls + 1
    /\ UNCHANGED <<systems, graph, buildLog>>

\* Scheduler.useSystem
UseSystem(callback, phase) ==
    /\ UNCHANGED <<hookVars, appVars, phaseVars, timingVars, frameVars, loopVars, utilVars, worldVars>>
    /\ CanCall
    /\ calls < MaxCalls
    /\ systems' = spawnSystem(callback, phase, cur)
    /\ calls' = calls + 1
    /\ UNCHANGED <<plugins, graph, pc, queue, cur, last, buildLog, tickPlugins, tickSystems>>

\* All orders of the set S.
Orders(S) ==
    {f \in [1..Cardinality(S) -> S] : \A i, j \in 1..Cardinality(S) : i # j => f[i] # f[j]}

\* scheduleSystems: every unscheduled system is flagged and handed to the graph.
Unscheduled(sys) == {i \in 1..Len(sys) : ~sys[i].scheduled}

scheduledNone(sys) == sys

scheduledAll(sys) == [i \in 1..Len(sys) |-> [sys[i] EXCEPT !.scheduled = TRUE]]

\* query(System).filter(...).forEach(...) visits the matching entities in the
\* order of the ECS storage, which the code does not control: the graphs
\* scheduler.addSystem may have built after one scheduleSystems.
graphsAfter(sys) == {graph \o f : f \in Orders(Unscheduled(sys))}

\* Scheduler.run up to the bootstrap scheduleSystems() call.
RunBootstrap ==
    /\ UNCHANGED <<hookVars, appVars, phaseVars, timingVars, frameVars, utilVars, worldVars>>
    /\ pc = "setup"
    /\ LET withFramework ==
               systems \o <<SystemEntity("buildPlugins", "ABSOLUTE_FIRST", 0),
                            SystemEntity("scheduleSystems", "ABSOLUTE_FIRST", 0)>>
       IN  /\ systems' = scheduledAll(withFramework)
           /\ graph' \in graphsAfter(withFramework)
    /\ plugins' = spawnPlugin("topoRuntimePlugin", NoArgs, 0, FALSE)
    /\ pc' = "idle"
    /\ UNCHANGED <<queue, cur, calls, last, buildLog, tickPlugins, tickSystems>>

Run == RunBootstrap /\ UNCHANGED loopVars

\* Position of system i in the graph.
GraphPos(i) == CHOOSE k \in 1..Len(graph) : graph[k] = i

FrameworkSystem(name) == CHOOSE i \in 1..Len(systems) : systems[i].callback = name

\* Both framework systems are in ABSOLUTE_FIRST; the one added to the graph
\* first runs first in every tick.
SchedulesFirst ==
    GraphPos(FrameworkSystem("scheduleSystems")) < GraphPos(FrameworkSystem("buildPlugins"))

Unbuilt == {i \in 1..Len(plugins) : ~plugins[i].built}

UnsortedOrders == Orders(Unbuilt)

\* buildPlugins: collect, filter(!built), sort(non External first). The sort is
\* table.sort, so plugins of one class come in any order.
SortedOrders ==
    {f \in Orders(Unbuilt) :
        \A i, j \in 1..Len(f) :
            (plugins[f[i]].external /\ ~plugins[f[j]].external) => j < i}

\* The framework system buildPlugins starts (once per update tick).
BuildPluginsBegin ==
    /\ UNCHANGED <<hookVars, appVars, phaseVars, timingVars, frameVars, utilVars, worldVars>>
    /\ \/ pc = "idle" /\ ~SchedulesFirst /\ TickBegins
       \/ pc = "scheduled" /\ UNCHANGED <<tickPlugins, tickSystems>>
    /\ queue' \in SortedOrders
    /\ pc' = "building"
    /\ cur' = 0
    /\ UNCHANGED <<plugins, systems, graph, calls, last, buildLog>>

BuildPluginsStart == BuildPluginsBegin /\ UNCHANGED loopVars

topoRuntimeCleanupInUpdate == "UPDATE"

\* topoRuntimePlugin: scheduler.useSystem(topoRuntimeCleanup, ABSOLUTE_LAST)
topoRuntimeCleanupPhase == "ABSOLUTE_LAST"

\* One step of the forEach: p.built = true; p.build(this, ...p.args).
\* topoRuntimePlugin's build is known code: it registers its cleanup system.
BuildNext ==
    /\ UNCHANGED <<hookVars, appVars, phaseVars, timingVars, frameVars, loopVars, utilVars, worldVars>>
    /\ pc = "building" /\ cur = 0 /\ queue # <<>>
    /\ LET i == Head(queue)
       IN  /\ plugins' = markBuilt(plugins, i)
           /\ buildLog' = Append(buildLog, [build |-> plugins[i].build, args |-> plugins[i].args])
           /\ IF plugins[i].build = "topoRuntimePlugin"
              THEN /\ systems' = spawnSystem("topoRuntimeCleanup", topoRuntimeCleanupPhase, i)
                   /\ cur' = 0
              ELSE /\ systems' = systems
                   /\ cur' = i
    /\ queue' = Tail(queue)
    /\ UNCHANGED <<graph, pc, calls, last, tickPlugins, tickSystems>>

\* The build callback of plugin cur returns.
BuildReturn ==
    /\ UNCHANGED <<hookVars, appVars, phaseVars, timingVars, frameVars, loopVars, utilVars, worldVars>>
    /\ pc = "building" /\ cur # 0
    /\ cur' = 0
    /\ UNCHANGED <<plugins, systems, graph, pc, queue, calls, last, buildLog, tickPlugins,
                   tickSystems>>

\* The framework system scheduleSystems runs: after buildPlugins is done, or
\* as the first system of the tick.
ScheduleSystemsRun ==
    /\ UNCHANGED <<hookVars, appVars, phaseVars, timingVars, frameVars, utilVars, worldVars>>
    /\ \/ /\ pc = "building" /\ cur = 0 /\ queue = <<>> /\ ~SchedulesFirst
          /\ pc' = "idle"
          /\ TickFirstEnds
       \/ /\ pc = "idle" /\ SchedulesFirst
          /\ pc' = "scheduled"
          /\ TickBegins
    /\ systems' = scheduledAll(systems)
    /\ graph' \in graphsAfter(systems)
    /\ UNCHANGED <<plugins, queue, cur, calls, last, buildLog>>

ScheduleSystems == ScheduleSystemsRun /\ UNCHANGED loopVars

\* buildPlugins returns as the second framework system: ABSOLUTE_FIRST is over.
BuildPluginsEnd ==
    /\ UNCHANGED <<hookVars, appVars, phaseVars, timingVars, frameVars, loopVars, utilVars, worldVars>>
    /\ pc = "building" /\ cur = 0 /\ queue = <<>> /\ SchedulesFirst
    /\ pc' = "idle"
    /\ TickFirstEnds
    /\ UNCHANGED <<plugins, systems, graph, queue, cur, calls, last, buildLog>>

InitScheduler ==
    /\ plugins = <<>>
    /\ systems = <<>>
    /\ graph = <<>>
    /\ pc = "setup"
    /\ queue = <<>>
    /\ cur = 0
    /\ calls = 0
    /\ last = NoCall
    /\ buildLog = <<>>
    /\ tickPlugins = 0
    /\ tickSystems = 0

(***************************************************************************)
(* topoRuntime: useHookState / cleanupHookState, and useThrottle           *)
(***************************************************************************)
\* Hook functions built on useHookState and the cleanup they pass:
\* useThrottle passes its expiry predicate, useStorage none (as useDeltaTime
\* and useThrottledMemo do), useCustom a predicate of the hook's author.
HookFns == {"useThrottle", "useStorage", "useCustom"}

CleanupOf(hookFn) ==
    CASE hookFn = "useThrottle" -> "throttle"
      [] hookFn = "useStorage" -> "none"
      [] hookFn = "useCustom" -> "custom"

\* Call sites (script and line) of the systems calling the hooks.
Sites == {"game.systems:10"}

\* `${hookFn}:${file}:${line}`
BaseKeys == {[hookFn |-> h, site |-> s] : h \in HookFns, s \in Sites}

\* useThrottledMemo is called at MemoSite; the useThrottle call inside it is
\* at line 31 of useThrottledMemo.ts whatever the site.
MemoSite == "game.systems:20"

MemoBase == [hookFn |-> "useThrottledMemo", site |-> MemoSite]

InnerThrottleBase == [hookFn |-> "useThrottle", site |-> "useThrottledMemo.ts:31"]

AllBases == BaseKeys \cup {MemoBase, InnerThrottleBase}

\* Discriminators, with the text tostring gives them.
Undefined == [type |-> "nil", str |-> "nil"]

Identifiers ==
    {Undefined, [type |-> "number", str |-> "1"], [type |-> "number", str |-> "0"]}

\* `if (identifier)`: nil, false, 0, NaN and "" do not pass.
Truthy(id) ==
    ~ \/ id.type = "nil"
      \/ id.type = "boolean" /\ id.str = "false"
      \/ id.type = "number" /\ id.str \in {"0", "nan"}
      \/ id.type = "string" /\ id.str = ""

\* tostring of a call count.
OrdStr(n) == <<"1", "2", "3", "4", "5", "6">>[n]

AllKeys ==
    {[base |-> b, extra |-> x] : b \in BaseKeys,
        x \in {OrdStr(n) : n \in 1..MaxFrameCalls} \cup {id.str : id \in Identifiers \ {Undefined}}}

\* What a cleanup predicate may return.
PredResults == {"true", "false", "nil", "truthy"}

NoTime == -1

\* The `{}` a hook passes as initial state: time and expiry undefined.
EmptyState == [time |-> NoTime, expiry |-> NoTime]

hookKeyNoCount(base, identifier) ==
    IF Truthy(identifier)
    THEN [base |-> base, extra |-> identifier.str]
    ELSE [base |-> base, extra |-> OrdStr(1)]

\* useHookState, lines 98-112: the key the call resolves to.
hookKey(base, identifier) ==
    IF Truthy(identifier)
    THEN [base |-> base, extra |-> identifier.str]
    ELSE [base |-> base, extra |-> OrdStr(frameCallCounts[base] + 1)]

\* useHookState, lines 104-110: the per-frame call counts after the call.
countsAfter(base, identifier) ==
    IF Truthy(identifier)
    THEN frameCallCounts
    ELSE [frameCallCounts EXCEPT ![base] = @ + 1]

storageWithLatest(store, key, initial, cleanup) ==
    [k \in DOMAIN store \cup {key} |->
        IF k = key THEN [state |-> initial, accessed |-> TRUE, cleanup |-> cleanup]
        ELSE store[k]]

\* useHookState, lines 114-119: the storage after the call.
storageWith(store, key, initial, cleanup) ==
    LET created ==
            IF key \in DOMAIN store THEN store
            ELSE [k \in DOMAIN store \cup {key} |->
                    IF k = key
                    THEN [state |-> initial, accessed |-> FALSE, cleanup |-> cleanup]
                    ELSE store[k]]
    IN  [created EXCEPT ![key].accessed = TRUE]

storageAfter(key, initial, cleanup) == storageWith(keyStorage, key, initial, cleanup)

\* useThrottle, lines 66-74: whether the call returns true.
throttleFires(state, seconds) ==
    state.time = NoTime \/ clock - state.time >= seconds

\* Systems make at most MaxFrameCalls hook calls per frame and keep at most
\* MaxEntries entries alive.
CanHookCall(key) ==
    /\ frameTotal < MaxFrameCalls
    /\ key \in DOMAIN keyStorage \/ Cardinality(DOMAIN keyStorage) < MaxEntries

CallRecordOf(base, identifier, key, ret, initial, cleanup) ==
    [op |-> "call", base |-> base, identifier |-> identifier, key |-> key,
     created |-> key \notin DOMAIN keyStorage, ret |-> ret,
     initial |-> initial, cleanup |-> cleanup]

NoHookCall(op) ==
    [op |-> op, base |-> [hookFn |-> "", site |-> ""], identifier |-> Undefined,
     key |-> [base |-> [hookFn |-> "", site |-> ""], extra |-> ""],
     created |-> FALSE, ret |-> FALSE, initial |-> EmptyState, cleanup |-> "none"]

\* The bookkeeping of one hook call: which entry it resolved to.
Observe(base, identifier, key, ret, initial, cleanup) ==
    /\ lastCall' = CallRecordOf(base, identifier, key, ret, initial, cleanup)
    /\ frameTotal' = frameTotal + 1
    /\ frameKeys' = IF identifier = Undefined
                    THEN [frameKeys EXCEPT ![base] = Append(@, key)]
                    ELSE frameKeys
    /\ frameFalsy' = IF identifier # Undefined /\ ~Truthy(identifier)
                     THEN frameFalsy \cup {base}
                     ELSE frameFalsy
    /\ sinceAccess' = IF key \in DOMAIN sinceAccess
                      THEN [sinceAccess EXCEPT ![key] = 0]
                      ELSE sinceAccess
    /\ lastVotes' = <<>>
    /\ lastEvaluated' = {}

\* useHookState(initial, identifier, cleanup)
UseHookState(base, identifier, initial, cleanup) ==
    /\ UNCHANGED <<schedVars, appVars, phaseVars, timingVars, loopVars, utilVars, worldVars>>
    /\ LET key == hookKey(base, identifier)
       IN  /\ CanHookCall(key)
           /\ keyStorage' = storageAfter(key, initial, cleanup)
           /\ Observe(base, identifier, key, FALSE, initial, cleanup)
    /\ frameCallCounts' = countsAfter(base, identifier)
    /\ UNCHANGED clock

\* A hook that only obtains its storage: useHookState(initial, identifier, cleanup).
UseHook(base, identifier) ==
    /\ base.hookFn # "useThrottle"
    /\ UseHookState(base, identifier, EmptyState, CleanupOf(base.hookFn))

\* useThrottle(seconds, identifier)
UseThrottle(base, seconds, identifier) ==
    /\ UNCHANGED <<schedVars, appVars, phaseVars, loopVars, utilVars, worldVars>>
    /\ base.hookFn = "useThrottle"
    /\ LET key == hookKey(base, identifier)
           stored == storageAfter(key, EmptyState, "throttle")
           fires == throttleFires(stored[key].state, seconds)
       IN  /\ CanHookCall(key)
           /\ keyStorage' =
                  IF fires
                  THEN [stored EXCEPT ![key].state =
                            [time |-> clock, expiry |-> clock + seconds]]
                  ELSE stored
           /\ Observe(base, identifier, key, fires, EmptyState, "throttle")
    /\ frameCallCounts' = countsAfter(base, identifier)
    /\ UNCHANGED clock

\* The values the factory returns, each different from the one before.
nextValue(made) == IF made = "v1" THEN "v2" ELSE "v1"

\* useThrottledMemo(seconds, factory, initialValue, identifier), called once
\* per frame at MemoSite.
UseThrottledMemo(seconds, identifier) ==
    /\ UNCHANGED <<schedVars, appVars, phaseVars, loopVars, utilVars, worldVars>>
    /\ frameCallCounts[MemoBase] = 0
    /\ frameTotal + 2 <= MaxFrameCalls
    /\ LET mkey == hookKey(MemoBase, Undefined)
           tkey == hookKey(InnerThrottleBase, identifier)
           withMemo == storageAfter(mkey, [value |-> "initial"], "none")
           stored == storageWith(withMemo, tkey, EmptyState, "throttle")
           fires == throttleFires(stored[tkey].state, seconds)
           made == nextValue(memo.made)
           final == IF fires
                    THEN [stored EXCEPT ![tkey].state = [time |-> clock, expiry |-> clock + seconds],
                                        ![mkey].state = [value |-> made]]
                    ELSE stored
       IN  /\ Cardinality(DOMAIN keyStorage \cup {mkey, tkey}) <= MaxEntries
           /\ keyStorage' = final
           /\ lastCall' = CallRecordOf(MemoBase, identifier, mkey, fires,
                                        [value |-> "initial"], "none")
           /\ memo' = [made |-> IF fires THEN made ELSE memo.made,
                       at |-> IF fires THEN clock ELSE memo.at,
                       ret |-> final[mkey].state.value]
           /\ frameCallCounts' =
                  [b \in AllBases |->
                      IF b = MemoBase THEN frameCallCounts[b] + 1
                      ELSE IF b = InnerThrottleBase THEN countsAfter(b, identifier)[b]
                      ELSE frameCallCounts[b]]
    /\ frameTotal' = frameTotal + 2
    /\ lastVotes' = <<>>
    /\ lastEvaluated' = {}
    /\ UNCHANGED <<clock, frameKeys, frameFalsy, sinceAccess, lastTrue, frameVars>>

\* The entries whose custom predicate the next cleanupHookState evaluates.
predicateRunsAlways == {k \in DOMAIN keyStorage : keyStorage[k].cleanup # "none"}

\* cleanupHookState, lines 129-132: the entries whose cleanup predicate one
\* cleanupHookState calls, each once as the forEach visits it.
predicateRuns ==
    {k \in DOMAIN keyStorage : ~keyStorage[k].accessed /\ keyStorage[k].cleanup # "none"}

CustomIdle == {k \in predicateRuns : keyStorage[k].cleanup = "custom"}

ExpiryOrZero(state) == IF state.expiry = NoTime THEN 0 ELSE state.expiry

keepsTruthy(storage, vote) ==
    CASE storage.cleanup = "none" -> FALSE
      [] storage.cleanup = "throttle" -> clock < ExpiryOrZero(storage.state)
      [] storage.cleanup = "custom" -> vote \in {"true", "truthy"}

\* cleanupHookState, line 132: storage.cleanup && storage.cleanup(storage.state) === true
keeps(storage, vote) ==
    CASE storage.cleanup = "none" -> FALSE
      [] storage.cleanup = "throttle" -> clock < ExpiryOrZero(storage.state)
      [] storage.cleanup = "custom" -> vote = "true"

VoteFor(votes, k) == IF k \in DOMAIN votes THEN votes[k] ELSE "nil"

storageAfterCleanupNoGrace(votes) ==
    LET kept == {k \in DOMAIN keyStorage : keeps(keyStorage[k], VoteFor(votes, k))}
    IN  [k \in kept |-> [keyStorage[k] EXCEPT !.accessed = FALSE]]

storageAfterCleanupSticky(votes) ==
    LET kept == {k \in DOMAIN keyStorage :
                    keyStorage[k].accessed \/ keyStorage[k].cleanup # "none"}
    IN  [k \in kept |-> [keyStorage[k] EXCEPT !.accessed = FALSE]]

\* cleanupHookState, lines 128-139: the storage after the forEach.
storageAfterCleanup(votes) ==
    LET kept == {k \in DOMAIN keyStorage :
                    keyStorage[k].accessed \/ keeps(keyStorage[k], VoteFor(votes, k))}
    IN  [k \in kept |->
            IF keyStorage[k].accessed
            THEN [keyStorage[k] EXCEPT !.accessed = FALSE]
            ELSE keyStorage[k]]

\* cleanupHookState, once at the end of a frame; votes are the answers of the
\* custom predicates it evaluates.
CleanupHookState(votes) ==
    /\ UNCHANGED <<schedVars, appVars, phaseVars, timingVars, loopVars, utilVars, worldVars>>
    /\ frameCallCounts' = [b \in AllBases |-> 0]
    /\ keyStorage' = storageAfterCleanup(votes)
    /\ lastCall' = NoHookCall("cleanup")
    /\ frameTotal' = 0
    /\ frameKeys' = [b \in BaseKeys |-> <<>>]
    /\ frameFalsy' = {}
    /\ sinceAccess' = [k \in DOMAIN sinceAccess |->
                          IF sinceAccess[k] < 2 THEN sinceAccess[k] + 1
                          ELSE IF k \in DOMAIN storageAfterCleanup(votes) THEN 2 ELSE 3]
    /\ lastVotes' = votes
    /\ lastEvaluated' = predicateRuns
    /\ UNCHANGED clock

\* Time passes between two operations.
ClockAdvance ==
    /\ UNCHANGED <<schedVars, appVars, phaseVars, timingVars, frameVars, loopVars, utilVars, worldVars>>
    /\ clock < MaxClock
    /\ clock' = clock + 1
    /\ UNCHANGED <<keyStorage, frameCallCounts, lastCall, frameTotal, frameKeys, frameFalsy,
                   sinceAccess, lastEvaluated, lastVotes>>

InitHooks ==
    /\ keyStorage = <<>>
    /\ frameCallCounts = [b \in AllBases |-> 0]
    /\ clock = 0
    /\ lastCall = NoHookCall("none")
    /\ frameTotal = 0
    /\ frameKeys = [b \in BaseKeys |-> <<>>]
    /\ frameFalsy = {}
    /\ sinceAccess = [k \in {x \in AllKeys : x.base.hookFn # "useThrottle"} |-> 3]
    /\ lastVotes = <<>>
    /\ lastEvaluated = {}

(***************************************************************************)
(* app.ts (App, lines 855-1092) and plugin.ts (PluginRegistry)             *)
(***************************************************************************)
\* Plugin classes; getmetatable(plugin) is the registry key.
Classes == {"PluginA", "PluginB", "TopoRuntimePlugin"}

\* debug.info(constructor, 'a'): self plus the constructor parameters.
ArgNum(cls) == IF cls = "PluginA" THEN 2 ELSE 1

\* Constructor arguments an instance of the class may have been made with.
CtorArgs(cls) == IF cls = "PluginA" THEN {Tab(<<Num(1)>>), Tab(<<Num(2)>>)} ELSE {NoArgs}

Owners == {"user", "third-party"}

Instance(cls, args) ==
    [cls |-> cls, args |-> args, owner |-> "none", built |-> FALSE, builds |-> 0]

\* The instance heap with o, when it is a new instance, constructed.
Constructed(o, cls, args) ==
    IF o <= Len(objs) THEN objs ELSE Append(objs, Instance(cls, args))

\* PluginRegistry.resolve: writes owner and built = false into the instance.
resolve(heap, o, owner) ==
    [heap EXCEPT ![o].owner = owner, ![o].built = FALSE]

Existing(cls) == IF cls \in DOMAIN registry THEN registry[cls] ELSE 0

\* PluginRegistry.add, lines 27-41: the error it returns; heap is the
\* instance heap after resolve.
addError(heap, o, owner) ==
    LET existing == Existing(heap[o].cls)
    IN  IF existing = 0 THEN "none"
        ELSE IF ArgNum(heap[o].cls) > 1 /\ heap[existing].owner = "third-party"
                    /\ owner = "third-party"
             THEN "duplicateThirdPartyPlugin"
             ELSE "duplicatePlugin"

\* PluginRegistry.add, line 39
registryAfterAdd(heap, o) ==
    IF heap[o].cls \in DOMAIN registry THEN registry
    ELSE [c \in DOMAIN registry \cup {heap[o].cls} |->
            IF c = heap[o].cls THEN o ELSE registry[c]]

AddRecord(o, owner, err) ==
    LET cls == IF o <= Len(objs) THEN objs[o].cls ELSE ""
        existing == IF o <= Len(objs) THEN Existing(cls) ELSE 0
    IN  [obj |-> o, owner |-> owner, existing |-> existing,
         existingOwner |-> IF existing # 0 THEN objs[existing].owner ELSE "none",
         existingBuilt |-> existing # 0 /\ objs[existing].built,
         err |-> err]

NoAdd ==
    [obj |-> 0, owner |-> "none", existing |-> 0, existingOwner |-> "none",
     existingBuilt |-> FALSE, err |-> "none"]

\* User code runs at top level, inside systems, or inside a plugin's build;
\* TopoRuntimePlugin.build only calls addSystems.
AppCanCall ==
    IF appStack = <<>>
    THEN appPc \in {"setup", "runAll", "running"}
    ELSE objs[appStack[Len(appStack)]].cls # "TopoRuntimePlugin"

\* App.addPlugins(plugin) called from code that is third-party or not. An
\* error() unwinds every build on the stack and, inside run(), run() itself.
AddPlugins(o, cls, args, owner) ==
    /\ UNCHANGED <<schedVars, hookVars, phaseVars, timingVars, frameVars, loopVars, utilVars, worldVars>>
    /\ AppCanCall
    /\ adds < MaxAdds
    /\ o \in 1..(Len(objs) + 1)
    /\ o <= Len(objs) => (cls = objs[o].cls /\ args = objs[o].args)
    /\ LET heap == resolve(Constructed(o, cls, args), o, owner)
           err == addError(heap, o, owner)
       IN  /\ appLast' = AddRecord(o, owner, err)
           /\ registry' = registryAfterAdd(heap, o)
           /\ IF err = "none" /\ running
              THEN /\ objs' = [heap EXCEPT ![o].builds = @ + 1]
                   /\ appStack' = Append(appStack, o)
                   /\ UNCHANGED <<appPc, iter>>
              ELSE IF err = "duplicateThirdPartyPlugin"
              THEN /\ objs' = heap
                   /\ appStack' = <<>>
                   /\ iter' = <<>>
                   /\ appPc' = IF appPc # "pass" THEN appPc
                               ELSE IF running THEN "running" ELSE "failed"
              ELSE /\ objs' = heap
                   /\ UNCHANGED <<appPc, iter, appStack>>
    /\ adds' = adds + 1
    /\ UNCHANGED <<builtCount, passLog, running>>

\* App.run, called on a new App or on one that is running, enters
\* PluginRegistry.buildAll: let builtCount = 0.
AppRun ==
    /\ UNCHANGED <<schedVars, hookVars, phaseVars, timingVars, frameVars, loopVars, utilVars, worldVars>>
    /\ appPc \in {"setup", "running"} /\ appStack = <<>>
    /\ appPc' = "buildAll"
    /\ builtCount' = 0
    /\ UNCHANGED <<objs, registry, iter, appStack, adds, appLast, passLog, running>>

RegistryOrders == Orders({registry[c] : c \in DOMAIN registry})

\* buildAll, lines 53-63: the loop test, and the array the for loop walks:
\* a fresh [...this.plugins], in the order the Lua table yields its keys. The
\* sorted snapshot is not the array that is walked.
LoopTest ==
    /\ UNCHANGED <<schedVars, hookVars, phaseVars, timingVars, frameVars, loopVars, utilVars, worldVars>>
    /\ appPc = "buildAll"
    /\ IF builtCount < Cardinality(DOMAIN registry)
       THEN /\ iter' \in RegistryOrders
            /\ appPc' = "pass"
       ELSE /\ iter' = <<>>
            /\ appPc' = "runAll"
    /\ passLog' = <<>>
    /\ UNCHANGED <<objs, registry, builtCount, appStack, adds, appLast, running>>

\* buildAll, lines 63-66: the next element; PluginRegistry.build calls build(app).
IterNext ==
    /\ UNCHANGED <<schedVars, hookVars, phaseVars, timingVars, frameVars, loopVars, utilVars, worldVars>>
    /\ appPc = "pass" /\ appStack = <<>> /\ iter # <<>>
    /\ LET o == Head(iter)
       IN  IF objs[o].built
           THEN UNCHANGED <<objs, appStack, passLog>>
           ELSE /\ objs' = [objs EXCEPT ![o].builds = @ + 1]
                /\ appStack' = <<o>>
                /\ passLog' = Append(passLog, objs[o].owner)
    /\ iter' = Tail(iter)
    /\ UNCHANGED <<registry, appPc, builtCount, adds, appLast, running>>

\* build(app) of the innermost instance returns: plugin.built = true, and
\* inside buildAll builtCount++.
BuildDone ==
    /\ UNCHANGED <<schedVars, hookVars, phaseVars, timingVars, frameVars, loopVars, utilVars, worldVars>>
    /\ appStack # <<>>
    /\ LET o == appStack[Len(appStack)]
       IN  objs' = [objs EXCEPT ![o].built = TRUE]
    /\ appStack' = SubSeq(appStack, 1, Len(appStack) - 1)
    /\ builtCount' = IF appPc = "pass" THEN builtCount + 1 ELSE builtCount
    /\ UNCHANGED <<registry, appPc, iter, adds, appLast, passLog, running>>

\* The for loop is through; back to the loop test.
PassEnd ==
    /\ UNCHANGED <<schedVars, hookVars, phaseVars, timingVars, frameVars, loopVars, utilVars, worldVars>>
    /\ appPc = "pass" /\ appStack = <<>> /\ iter = <<>>
    /\ appPc' = "buildAll"
    /\ UNCHANGED <<objs, registry, builtCount, iter, appStack, adds, appLast, passLog, running>>

\* App.run, lines 1053-1054: scheduler.runAll() returns; running = true.
Started ==
    /\ UNCHANGED <<schedVars, hookVars, phaseVars, timingVars, frameVars, loopVars, utilVars, worldVars>>
    /\ appPc = "runAll" /\ appStack = <<>>
    /\ appPc' = "running"
    /\ running' = TRUE
    /\ UNCHANGED <<objs, registry, builtCount, iter, appStack, adds, appLast, passLog>>

\* new App(): the constructor adds the standard plugins; the caller that
\* addPlugins sees is app.ts itself, under node_modules or not.
InitApp(owner) ==
    /\ objs = <<[Instance("TopoRuntimePlugin", NoArgs) EXCEPT !.owner = owner]>>
    /\ registry = [c \in {"TopoRuntimePlugin"} |-> 1]
    /\ appPc = "setup"
    /\ builtCount = 0
    /\ iter = <<>>
    /\ appStack = <<>>
    /\ adds = 0
    /\ appLast = NoAdd
    /\ passLog = <<>>
    /\ running = FALSE

(***************************************************************************)
(* app.ts addPhaseAfter / addPhaseBefore, std/phases (part_016)            *)
(***************************************************************************)
UPDATE_PIPELINE ==
    <<"ABSOLUTE_FIRST", "FIRST", "PRE_UPDATE", "UPDATE", "POST_UPDATE", "LAST", "ABSOLUTE_LAST">>

STARTUP_PIPELINE == <<"PRE_STARTUP", "STARTUP", "POST_STARTUP">>

\* The phases user code creates with new Phase(...), in creation order.
CustomPhases == <<"custom1", "custom2", "custom3", "custom4">>

InPipeline(order, phase) == \E k \in 1..Len(order) : order[k] = phase

PhasePos(order, phase) == CHOOSE k \in 1..Len(order) : order[k] = phase

\* Phases of any pipeline of the App.
KnownPhases == UNION {{pipelines[pl][k] : k \in 1..Len(pipelines[pl])} : pl \in DOMAIN pipelines}

CustomCount == Cardinality({k \in 1..Len(CustomPhases) : CustomPhases[k] \in KnownPhases})

\* scheduler.insertAfter(phase, after): the phase runs right after its anchor.
insertAfter(order, phase, after) ==
    IF ~InPipeline(order, after) THEN order
    ELSE LET k == PhasePos(order, after)
         IN  SubSeq(order, 1, k) \o <<phase>> \o SubSeq(order, k + 1, Len(order))

\* scheduler.insertBefore(phase, before): the phase runs right before its anchor.
insertBefore(order, phase, before) ==
    IF ~InPipeline(order, before) THEN order
    ELSE LET k == PhasePos(order, before)
         IN  SubSeq(order, 1, k - 1) \o <<phase>> \o SubSeq(order, k, Len(order))

rejectsAfterOnlyLast(after) == after = "LAST"

\* addPhaseAfter, line 1016
rejectsAfter(after) == after = "LAST" \/ after = "ABSOLUTE_LAST"

rejectsBeforeOnlyFirst(before) == before = "FIRST"

\* addPhaseBefore, line 1029
rejectsBefore(before) == before = "FIRST" \/ before = "ABSOLUTE_FIRST"

PhaseCall(op, phase, anchor, raised) ==
    [op |-> op, phase |-> phase, anchor |-> anchor, raised |-> raised]

\* App.addPhaseAfter(phase, after)
AddPhaseAfter(phase, after) ==
    /\ UNCHANGED <<schedVars, hookVars, appVars, timingVars, frameVars, loopVars, utilVars, worldVars>>
    /\ IF rejectsAfter(after)
       THEN /\ pipelines' = pipelines
            /\ phaseLast' = PhaseCall("after", phase, after, TRUE)
       ELSE /\ pipelines' = [pl \in DOMAIN pipelines |-> insertAfter(pipelines[pl], phase, after)]
            /\ phaseLast' = PhaseCall("after", phase, after, FALSE)

\* App.addPhaseBefore(phase, before)
AddPhaseBefore(phase, before) ==
    /\ UNCHANGED <<schedVars, hookVars, appVars, timingVars, frameVars, loopVars, utilVars, worldVars>>
    /\ IF rejectsBefore(before)
       THEN /\ pipelines' = pipelines
            /\ phaseLast' = PhaseCall("before", phase, before, TRUE)
       ELSE /\ pipelines' = [pl \in DOMAIN pipelines |-> insertBefore(pipelines[pl], phase, before)]
            /\ phaseLast' = PhaseCall("before", phase, before, FALSE)

\* new App(): the constructor inserts the standard pipelines.
NoKey == [base |-> [hookFn |-> "", site |-> ""], extra |-> ""]

InitFrames ==
    /\ prevFrameKeys = [b \in BaseKeys |-> <<>>]
    /\ resolved = [x \in BaseKeys \X (Identifiers \ {Undefined}) |-> NoKey]

InitTiming ==
    /\ lastTrue = [id \in Identifiers |-> NoTime]
    /\ memo = [made |-> "none", at |-> NoTime, ret |-> "none"]

InitPhases ==
    /\ pipelines = [pl \in {"startup", "update"} |->
                      IF pl = "update" THEN UPDATE_PIPELINE ELSE STARTUP_PIPELINE]
    /\ phaseLast = PhaseCall("none", "", "", FALSE)

InitUtil ==
    /\ eqA = NoArgs
    /\ eqB = NoArgs
    /\ eqRet = [called |-> FALSE, ab |-> FALSE, ba |-> FALSE, aa |-> FALSE]

InitWorld ==
    /\ withC = {}
    /\ withPrev = {}
    /\ observed = FALSE
    /\ framePos = "before"
    /\ track = [i \in 1..MaxIds |-> [reports |-> 0, syncs |-> 0, early |-> FALSE]]
    /\ findRet = [called |-> FALSE, query |-> "", hits |-> {}, ret |-> 0]

InitLoop ==
    /\ runAllPc = "no"
    /\ source = "none"
    /\ stage = 0
    /\ cleanups = 0
    /\ late = FALSE
    /\ topoBefore = FALSE
    /\ invokedBy = {}

Init == InitScheduler /\ InitHooks /\ InitApp("third-party") /\ InitPhases /\ InitTiming
        /\ InitFrames /\ InitLoop /\ InitUtil /\ InitWorld

InitAnyApp == InitScheduler /\ InitHooks /\ InitPhases /\ InitTiming /\ InitFrames /\ InitLoop /\ InitUtil /\ InitWorld /\ \E owner \in Owners : InitApp(owner)

AddPluginsCall ==
    \E o \in 1..(Len(objs) + 1), cls \in Classes \ {"TopoRuntimePlugin"}, owner \in Owners :
        \E args \in CtorArgs(cls) : AddPlugins(o, cls, args, owner)

NextApp ==
    \/ AddPluginsCall
    \/ AppRun
    \/ LoopTest
    \/ IterNext
    \/ BuildDone
    \/ PassEnd
    \/ Started

SpecApp == InitAnyApp /\ [][NextApp]_vars

\* buildAll and the builders it calls run on without waiting for anything.
BuildAllProceeds == LoopTest \/ IterNext \/ BuildDone \/ PassEnd

SpecAppFair == SpecApp /\ WF_vars(BuildAllProceeds)

\* User code adds its next new phase next to a phase of one of the pipelines;
\* at most MaxPhases phases are added, rejected calls not counted.
AddPhaseAfterCall ==
    \E after \in KnownPhases :
        /\ CustomCount < MaxPhases \/ rejectsAfter(after)
        /\ AddPhaseAfter(CustomPhases[CustomCount + 1], after)

AddPhaseBeforeCall ==
    \E before \in KnownPhases :
        /\ CustomCount < MaxPhases \/ rejectsBefore(before)
        /\ AddPhaseBefore(CustomPhases[CustomCount + 1], before)

NextPhases ==
    \/ AddPhaseAfterCall
    \/ AddPhaseBeforeCall

SpecPhases == Init /\ [][NextPhases]_vars

UseHookCall ==
    /\ \E b \in BaseKeys, id \in Identifiers : UseHook(b, id)
    /\ UNCHANGED frameVars

ThrottleSeconds == {2}

UseThrottleCall ==
    /\ \E b \in BaseKeys, sec \in ThrottleSeconds, id \in Identifiers : UseThrottle(b, sec, id)
    /\ UNCHANGED <<timingVars, frameVars>>

CleanupCall ==
    /\ \E votes \in [CustomIdle -> PredResults] : CleanupHookState(votes)
    /\ UNCHANGED frameVars

NextHooks ==
    \/ UseHookCall
    \/ UseThrottleCall
    \/ CleanupCall
    \/ ClockAdvance

SpecHooks == Init /\ [][NextHooks]_vars

\* useThrottle at its one site, which passes the same discriminator on every
\* call, with the caller noting when it returned true.
UseThrottleTimed ==
    /\ \E b \in BaseKeys, sec \in ThrottleSeconds, id \in Identifiers :
           /\ \A other \in Identifiers \ {id} : lastTrue[other] = NoTime
           /\ UseThrottle(b, sec, id)
    /\ lastTrue' = IF lastCall'.ret
                   THEN [lastTrue EXCEPT ![lastCall'.identifier] = clock]
                   ELSE lastTrue
    /\ UNCHANGED <<memo, frameVars>>

\* A hook call as its caller sees it: the entry it was handed.
TrackCall ==
    /\ resolved' = IF lastCall'.identifier # Undefined
                   THEN [resolved EXCEPT ![<<lastCall'.base, lastCall'.identifier>>] =
                            lastCall'.key]
                   ELSE resolved
    /\ UNCHANGED prevFrameKeys

UseHookTracked ==
    /\ \E b \in BaseKeys, id \in Identifiers : UseHook(b, id)
    /\ TrackCall

UseThrottleTracked ==
    /\ \E b \in BaseKeys, sec \in ThrottleSeconds, id \in Identifiers : UseThrottle(b, sec, id)
    /\ TrackCall
    /\ UNCHANGED timingVars

\* cleanupHookState with the frame it ends remembered; an entry it deletes
\* is no longer any caller's entry.
CleanupTracked ==
    /\ \E votes \in [CustomIdle -> PredResults] : CleanupHookState(votes)
    /\ prevFrameKeys' = frameKeys
    /\ resolved' = [x \in DOMAIN resolved |->
                       IF resolved[x] \in DOMAIN keyStorage' THEN resolved[x] ELSE NoKey]

NextFrames ==
    \/ UseHookTracked
    \/ UseThrottleTracked
    \/ CleanupTracked
    \/ ClockAdvance

SpecFrames == Init /\ [][NextFrames]_vars

\* useHookState called by one custom hook at one call site, with any initial
\* value and any cleanup predicate.
UseHookStateCall ==
    /\ \E b \in {x \in BaseKeys : x.hookFn = "useCustom"}, id \in Identifiers,
          initial \in {EmptyState, [time |-> 0, expiry |-> 0]}, cleanup \in {"none", "custom"} :
           UseHookState(b, id, initial, cleanup)
    /\ UNCHANGED frameVars

SpecEntries == Init /\ [][UseHookStateCall \/ CleanupCall]_vars

\* One system bound to Heartbeat and two bound to other RunService events,
\* each making one unlabeled hook call per run; cleanupHookState ends every
\* Heartbeat pass. The events fire independently of each other.
UpdateSystemRuns ==
    /\ frameCallCounts[[hookFn |-> "useStorage", site |-> "game.systems:10"]] = 0
    /\ UseHook([hookFn |-> "useStorage", site |-> "game.systems:10"], Undefined)
    /\ UNCHANGED frameVars

EventSystemRuns ==
    /\ UseHook([hookFn |-> "useCustom", site |-> "game.systems:10"], Undefined)
    /\ UNCHANGED frameVars

ThrottledSystemRuns ==
    /\ \E sec \in ThrottleSeconds :
           UseThrottle([hookFn |-> "useThrottle", site |-> "game.systems:10"], sec, Undefined)
    /\ UNCHANGED <<timingVars, frameVars>>

HeartbeatEnds ==
    /\ frameCallCounts[[hookFn |-> "useStorage", site |-> "game.systems:10"]] = 1
    /\ CleanupCall

SpecSources ==
    Init /\ [][UpdateSystemRuns \/ EventSystemRuns \/ ThrottledSystemRuns
                  \/ HeartbeatEnds \/ ClockAdvance]_vars

UseThrottledMemoCall == \E sec \in ThrottleSeconds : UseThrottledMemo(sec, Undefined)

NextThrottle ==
    \/ UseThrottleTimed
    \/ UseThrottledMemoCall
    \/ CleanupCall
    \/ ClockAdvance

SpecThrottle == Init /\ [][NextThrottle]_vars

UsePluginCall == \E b \in UserBuilders, a \in ArgChoices, e \in BOOLEAN : UsePlugin(b, a, e)

UseSystemCall == \E c \in Callbacks, p \in UserPhases : UseSystem(c, p)

\* Plugin registration and building: every argument tuple and owner.
Next ==
    \/ UsePluginCall
    \/ Run
    \/ BuildPluginsStart
    \/ BuildNext
    \/ BuildReturn
    \/ ScheduleSystems
    \/ BuildPluginsEnd

Spec == Init /\ [][Next]_vars

\* Registrations that differ in nothing but the builder and the owner.
UsePluginPlain == \E b \in UserBuilders, e \in BOOLEAN : UsePlugin(b, Tab(<<Num(1)>>), e)

\* Systems, plugins and update ticks.
NextTicks ==
    \/ UsePluginPlain
    \/ UseSystemCall
    \/ Run
    \/ BuildPluginsStart
    \/ BuildNext
    \/ BuildReturn
    \/ ScheduleSystems
    \/ BuildPluginsEnd

SpecTicks == Init /\ [][NextTicks]_vars

\* ---- the passes of the Planck scheduler over the pipelines ----

\* The RunService events the pipelines and phases are inserted on.
TickSources == {"Heartbeat", "PreRender", "PreAnimation", "PreSimulation", "PostSimulation"}

EventPhase(src) ==
    CASE src = "PreRender" -> "PRE_RENDER"
      [] src = "PreAnimation" -> "PRE_ANIMATION"
      [] src = "PreSimulation" -> "PRE_SIMULATION"
      [] src = "PostSimulation" -> "POST_SIMULATION"

\* The systems a pass runs in phase p: those scheduler.addSystem received for
\* p, in the order it received them.
PhaseSystems(p) == SelectSeq(graph, LAMBDA i : systems[i].phase = p)

IsCleanup(i) == systems[i].callback = "topoRuntimeCleanup"

\* topoRuntimeCleanup calls cleanupHookState once.
CleanupCount(r) == Len(SelectSeq(r, IsCleanup))

UserUpdatePhases == {"FIRST", "PRE_UPDATE", "UPDATE", "POST_UPDATE", "LAST"}

\* Some system of FIRST..LAST runs in r after a cleanup has run.
RunsLate(p, r) ==
    /\ p \in UserUpdatePhases
    /\ \E b \in 1..Len(r) :
          /\ ~IsCleanup(r[b])
          /\ cleanups > 0 \/ \E a \in 1..(b - 1) : IsCleanup(r[a])

InvokedAfter(r, by) == IF CleanupCount(r) > 0 THEN invokedBy \cup {by} ELSE invokedBy

\* run() reaches scheduler.runAll().
RunCall ==
    /\ RunBootstrap
    /\ runAllPc' = "startup"
    /\ UNCHANGED <<source, stage, cleanups, late, topoBefore, invokedBy>>

\* runAll runs the phases of STARTUP_PIPELINE, once.
RunStartup ==
    /\ UNCHANGED <<schedVars, hookVars, appVars, phaseVars, timingVars, frameVars, utilVars, worldVars>>
    /\ runAllPc = "startup" /\ pc = "idle"
    /\ runAllPc' = "events"
    /\ invokedBy' = InvokedAfter(PhaseSystems("PRE_STARTUP") \o PhaseSystems("STARTUP")
                                     \o PhaseSystems("POST_STARTUP"), "startup")
    /\ UNCHANGED <<source, stage, cleanups, late, topoBefore>>

\* Who drives a pass that starts now: runAll until it has returned, the
\* RunService event afterwards.
DrivenBy(src) == IF runAllPc = "done" THEN src ELSE "runAll"

\* A pass over UPDATE_PIPELINE begins (by runAll, then at every Heartbeat):
\* the first framework system of ABSOLUTE_FIRST starts.
UpdatePassBegins ==
    /\ runAllPc \in {"events", "done"} /\ pc = "idle" /\ stage = 0
    /\ BuildPluginsBegin \/ ScheduleSystemsRun
    /\ source' = DrivenBy("Heartbeat")
    /\ stage' = 1
    /\ cleanups' = 0
    /\ late' = FALSE
    /\ topoBefore' = (\E i \in 1..Len(plugins) :
                         plugins[i].build = "topoRuntimePlugin" /\ plugins[i].built)
    /\ UNCHANGED <<runAllPc, invokedBy>>

\* The second framework system of ABSOLUTE_FIRST starts.
SecondFrameworkSystem ==
    /\ pc # "idle"
    /\ BuildPluginsStart \/ ScheduleSystems \/ BuildPluginsEnd

\* The next phase of UPDATE_PIPELINE that has a system to run, the last
\* phase if there is none: a phase without systems runs nothing.
NextStage ==
    LET busy == {k \in (stage + 1)..Len(UPDATE_PIPELINE) :
                    PhaseSystems(UPDATE_PIPELINE[k]) # <<>>}
    IN  IF busy = {} THEN Len(UPDATE_PIPELINE)
        ELSE CHOOSE k \in busy : \A other \in busy : k <= other

\* The pass goes on through the phases of UPDATE_PIPELINE up to the next one
\* that has systems, and runs them.
RunPhase ==
    /\ UNCHANGED <<schedVars, hookVars, appVars, phaseVars, timingVars, frameVars, utilVars, worldVars>>
    /\ pc = "idle" /\ stage \in 1..(Len(UPDATE_PIPELINE) - 1)
    /\ LET p == UPDATE_PIPELINE[NextStage]
           r == PhaseSystems(p)
       IN  /\ cleanups' = IF cleanups + CleanupCount(r) > 2 THEN 2
                          ELSE cleanups + CleanupCount(r)
           /\ late' = (late \/ RunsLate(p, r))
           /\ invokedBy' = InvokedAfter(r, source)
    /\ stage' = IF NextStage = Len(UPDATE_PIPELINE) THEN 0 ELSE NextStage
    /\ runAllPc' = IF NextStage = Len(UPDATE_PIPELINE) THEN "done" ELSE runAllPc
    /\ UNCHANGED <<source, topoBefore>>

\* One of the single phases inserted on another RunService event runs (by
\* runAll, then at every firing of its event).
RunEventPhase ==
    /\ UNCHANGED <<schedVars, hookVars, appVars, phaseVars, timingVars, frameVars, utilVars, worldVars>>
    /\ runAllPc \in {"events", "done"} /\ pc = "idle" /\ stage = 0
    /\ \E src \in TickSources \ {"Heartbeat"} :
          invokedBy' = InvokedAfter(PhaseSystems(EventPhase(src)), DrivenBy(src))
    /\ UNCHANGED <<runAllPc, source, stage, cleanups, late, topoBefore>>

\* The phases user systems are registered on here: one of UPDATE_PIPELINE and
\* one inserted on another RunService event.
LoopPhases == {"UPDATE", "PRE_RENDER"}

UseSystemAnyPhase == \E p \in LoopPhases : UseSystem("sysA", p)

NextLoop ==
    \/ UseSystemAnyPhase
    \/ RunCall
    \/ RunStartup
    \/ UpdatePassBegins
    \/ SecondFrameworkSystem
    \/ BuildNext
    \/ RunPhase
    \/ RunEventPhase

SpecLoop == Init /\ [][NextLoop]_vars

(***************************************************************************)
(* Claims about scheduler.ts (checked under Spec)                          *)
(***************************************************************************)
\* The most recent usePlugin call met an existing record of a builder that
\* takes extra arguments, with arguments that differ from the stored ones.
LastIsConflict ==
    /\ last.existing # 0
    /\ Arity(last.build) > 1
    /\ last.args # last.existingArgs

BuildsOf(build) == {k \in 1..Len(buildLog) : buildLog[k].build = build}

\* C1 (as stated): when a builder taking extra arguments is registered twice
\* with differing arguments and exactly one registration is user-owned, no
\* error is raised and the record holds the user's arguments, in both orders.
C1_UserWinsBothOrders ==
    (LastIsConflict /\ last.existingExternal # last.incomingExternal) =>
        /\ ~last.err.raised
        /\ plugins[last.existing].args =
               (IF last.existingExternal THEN last.args ELSE last.existingArgs)

\* C1 (amended): with exactly one user-owned registration and differing
\* arguments, user first then external raises nothing and keeps the user's
\* arguments; external first then user raises the conflict error and the
\* record keeps the external arguments.
C1_UserWinsWhenFirst ==
    (LastIsConflict /\ last.existingExternal # last.incomingExternal) =>
        /\ last.err.raised = last.existingExternal
        /\ plugins[last.existing].args = last.existingArgs

C1_Witness ==
    /\ LastIsConflict
    /\ last.existingExternal /\ ~last.incomingExternal
    /\ last.err.raised

\* C2: a second registration of a builder taking extra arguments, with
\* arguments not deeply equal to the stored ones, both registrations external,
\* always raises the conflict error, and the error carries both argument sets.
C2_ExternalConflictRaises ==
    (LastIsConflict /\ last.existingExternal /\ last.incomingExternal) =>
        /\ last.err.raised
        /\ last.err.existingArgs = last.existingArgs
        /\ last.err.newArgs = last.args

C2_Witness ==
    /\ LastIsConflict /\ last.existingExternal /\ last.incomingExternal
    /\ last.err.existingArgs = Tab(<<Num(1)>>)
    /\ last.err.newArgs = Tab(<<Num(2)>>)

\* C3: a builder first registered by user code with arguments A and later by
\* an external plugin with any arguments B: the later call raises nothing,
\* creates no record, leaves the stored arguments A, and the builder is
\* invoked at most once and, once built, exactly once, with A.
C3_UserThenExternalIgnored ==
    (last.existing # 0 /\ ~last.existingExternal /\ last.incomingExternal) =>
        /\ ~last.err.raised
        /\ Len(plugins) = last.countBefore
        /\ plugins[last.existing].args = last.existingArgs
        /\ Cardinality(BuildsOf(last.build)) <= 1
        /\ plugins[last.existing].built => Cardinality(BuildsOf(last.build)) = 1
        /\ \A k \in BuildsOf(last.build) : buildLog[k].args = last.existingArgs

C3_Witness ==
    /\ last.existing # 0 /\ ~last.existingExternal /\ last.incomingExternal
    /\ Arity(last.build) > 1
    /\ last.args # last.existingArgs
    /\ plugins[last.existing].built
    /\ \E k \in BuildsOf(last.build) : buildLog[k].args = last.existingArgs

\* C5: user code registering a builder (taking extra arguments) that user
\* code registered with different arguments raises the conflict error, and no
\* conflict other than existing=user/incoming=external is resolved silently.
C5_NoSilentResolution ==
    (LastIsConflict /\ ~(~last.existingExternal /\ last.incomingExternal)) =>
        /\ last.err.raised
        /\ plugins[last.existing].args = last.existingArgs

C5_Witness ==
    /\ LastIsConflict
    /\ ~last.existingExternal /\ ~last.incomingExternal
    /\ last.err.raised
    /\ last.err.existingSource = "user code" /\ last.err.incomingSource = "user code"

\* C21: a duplicate registration of a builder that takes no extra argument
\* (arity 1) never raises, whoever owns the two registrations and whatever
\* arguments are supplied; it creates no record and returns a handle to the
\* existing one.
C21_ParameterlessDuplicateIsBenign ==
    [][calls' = calls + 1 /\ last'.existing # 0 /\ Arity(last'.build) = 1 =>
          /\ ~last'.err.raised
          /\ plugins' = plugins
          /\ last'.handle = last'.existing
          /\ plugins[last'.handle].build = last'.build]_vars

C21_Witness ==
    /\ last.existing # 0
    /\ Arity(last.build) = 1
    /\ last.existingExternal /\ ~last.incomingExternal
    /\ ~deepEqual(last.existingArgs, last.args)
    /\ Len(plugins) = last.countBefore

(***************************************************************************)
(* Claims about systems and update ticks (checked under SpecTicks)         *)
(***************************************************************************)
TimesInGraph(g, i) == Cardinality({k \in 1..Len(g) : g[k] = i})

\* C11: in every step, no system record is lost, a record that is scheduled
\* stays scheduled, a record is in the pipeline graph exactly once when it is
\* scheduled and not at all when it is not, and a scheduleSystems run that
\* finds no unscheduled record changes neither the records nor the graph.
C11_ScheduledIsALatch ==
    [][/\ Len(systems) <= Len(systems')
       /\ \A i \in 1..Len(systems) : systems[i].scheduled => systems'[i].scheduled
       /\ \A i \in 1..Len(systems') :
             TimesInGraph(graph', i) = (IF systems'[i].scheduled THEN 1 ELSE 0)
       /\ (ScheduleSystems /\ Unscheduled(systems) = {}) =>
             (systems' = systems /\ graph' = graph)]_vars

\* A system registered after run() has been scheduled by a later tick.
C11_Witness ==
    /\ pc = "idle"
    /\ \E i \in 1..Len(systems) :
          /\ systems[i].callback \in Callbacks
          /\ i > FrameworkSystem("scheduleSystems")
          /\ systems[i].scheduled
          /\ TimesInGraph(graph, i) = 1

\* C13: any two user systems of one phase that are in the pipeline graph are
\* there in the order in which useSystem registered them.
C13_GraphInRegistrationOrder ==
    \A i, j \in 1..Len(systems) :
        (/\ i < j
         /\ systems[i].callback \in Callbacks /\ systems[j].callback \in Callbacks
         /\ systems[i].phase = systems[j].phase
         /\ systems[i].scheduled /\ systems[j].scheduled)
            => GraphPos(i) < GraphPos(j)

\* Records registered after run() returned: run() registers the two framework
\* systems and the standard plugin last.
AfterRunSystem(i) == i > FrameworkSystem("scheduleSystems")

AfterRunPlugin(p) == p > FindPlugin("topoRuntimePlugin")

\* C14: at the step that ends ABSOLUTE_FIRST of an update tick, every system
\* and plugin registered after run() and before that tick began is picked
\* up: the system is scheduled, the plugin is built and the systems its
\* builder registered are scheduled.
C14_PickedUpByNextTick ==
    [][(pc = "building" /\ pc' = "idle") =>
          /\ \A i \in 1..tickSystems : AfterRunSystem(i) => systems'[i].scheduled
          /\ \A p \in 1..tickPlugins :
                AfterRunPlugin(p) =>
                    /\ plugins'[p].built
                    /\ \A k \in 1..Len(systems') :
                          systems'[k].parent = p => systems'[k].scheduled]_vars

\* C15: at the step in which run() reaches scheduler.runAll(), every plugin
\* registered before run() is built and every system registered by the
\* builder of such a plugin is scheduled.
C15_BuiltBeforeRunAll ==
    [][(pc = "setup" /\ pc' # "setup") =>
          \A p \in 1..Len(plugins) :
              /\ plugins'[p].built
              /\ \A k \in 1..Len(systems') :
                    systems'[k].parent = p => systems'[k].scheduled]_vars

\* C34: there is at most one plugin record per builder, whatever arguments
\* and owners the registrations carried, and no step removes or replaces a
\* plugin record or a system record.
C34_OneRecordPerBuilder ==
    [][/\ \A i, j \in 1..Len(plugins') : plugins'[i].build = plugins'[j].build => i = j
       /\ Len(plugins) <= Len(plugins') /\ Len(systems) <= Len(systems')
       /\ \A i \in 1..Len(plugins) : plugins'[i].build = plugins[i].build
       /\ \A i \in 1..Len(systems) : systems'[i].callback = systems[i].callback]_vars

\* A builder was registered again with other arguments by another owner,
\* without an error, and the records are as many as before.
C34_Witness ==
    /\ LastIsConflict /\ ~last.err.raised
    /\ last.parent # plugins[last.existing].parent
    /\ Len(plugins) = last.countBefore
    /\ Len(plugins) >= 3

\* C35: a usePlugin call that raises the conflict error leaves every plugin
\* record as it was and creates none.
C35_ErrorLeavesRegistryUnchanged ==
    [][(calls' = calls + 1 /\ last'.err.raised) => plugins' = plugins]_vars

\* The call that raised was made by a builder, against a built record that
\* has an owner.
C35_Witness ==
    /\ last.err.raised /\ last.parent # 0
    /\ plugins[last.existing].built
    /\ plugins[last.existing].parent # 0
    /\ plugins[last.existing].args = last.existingArgs

\* C36: a plugin is marked built before its builder is invoked: no builder
\* is invoked twice, also after raising or registering its own plugin type
\* again; and when a builder raises, the plugins of the pass not reached yet
\* are still unbuilt (a later pass builds them, C28).
C36_BuiltBeforeBuilderRuns ==
    [][/\ \A b \in Builders : Cardinality(BuildsOf(b)') <= 1
       /\ buildLog' # buildLog => (plugins'[Head(queue)].built /\ ~plugins[Head(queue)].built)
       /\ (pc = "building" /\ calls' = calls + 1 /\ last'.err.raised) =>
             /\ pc' = "idle"
             /\ plugins'[cur].built
             /\ \A k \in 1..Len(queue) : ~plugins'[queue[k]].built]_vars

\* A builder raised while a plugin of its pass was still waiting, and a
\* builder has registered its own plugin type again.
C36_Witness ==
    /\ pc = "idle" /\ last.err.raised /\ last.parent # 0
    /\ \E i \in 1..Len(plugins) :
          ~plugins[i].built /\ plugins[i].parent = 0 /\ i # last.existing

C36_SelfWitness ==
    /\ last.existing # 0 /\ last.parent = last.existing
    /\ Cardinality(BuildsOf(last.build)) = 1

\* C28: in one run of buildPlugins every unbuilt plugin not tagged External
\* has its builder invoked before any unbuilt External plugin, and a plugin
\* registered by a builder during the run is not built in that run: it is
\* unbuilt when the run ends, and a later run builds it.
C28_UserFirstAndNoBuildInSameRun ==
    [][/\ buildLog' # buildLog =>
             LET i == Head(queue)
             IN  /\ i <= tickPlugins
                 /\ plugins[i].external =>
                        \A j \in 1..tickPlugins : ~plugins[j].external => plugins[j].built
       /\ (pc = "building" /\ pc' # "building" /\ calls' = calls) =>
             \A j \in 1..Len(plugins) : plugins[j].built <=> j <= tickPlugins]_vars

C28_Witness ==
    /\ pc = "building"
    /\ \E e \in 1..tickPlugins : plugins[e].external /\ plugins[e].built
    /\ \E n \in 1..tickPlugins : ~plugins[n].external /\ plugins[n].built
    /\ \E j \in (tickPlugins + 1)..Len(plugins) : ~plugins[j].built

\* C29: in every update tick buildPlugins runs before scheduleSystems, so
\* at the step that ends ABSOLUTE_FIRST every system registered by a builder
\* invoked in that tick is scheduled.
C29_BuiltSystemsScheduledSameTick ==
    [][(pc = "building" /\ pc' = "idle" /\ calls' = calls) =>
          /\ ~SchedulesFirst
          /\ \A k \in (tickSystems + 1)..Len(systems') :
                systems'[k].parent # 0 => systems'[k].scheduled]_vars

\* With buildPlugins ahead of scheduleSystems in the graph the systems of the
\* tick's builders are scheduled in the same tick.
BuildFirstSchedulesSameTick ==
    [][(pc = "building" /\ pc' = "idle" /\ calls' = calls /\ ~SchedulesFirst) =>
          \A k \in (tickSystems + 1)..Len(systems') :
              systems'[k].parent # 0 => systems'[k].scheduled]_vars

(***************************************************************************)
(* Claims about the hook state store (checked under SpecHooks)             *)
(***************************************************************************)
\* C6: an entry created with no cleanup predicate and not accessed again
\* survives the cleanupHookState ending its creation frame, with accessed
\* reset to false, and is deleted by exactly the next cleanupHookState.
C6_DeletedAfterOneIdleFrame ==
    \A k \in DOMAIN sinceAccess :
        CleanupOf(k.base.hookFn) = "none" =>
            /\ sinceAccess[k] = 0 => (k \in DOMAIN keyStorage /\ keyStorage[k].accessed)
            /\ sinceAccess[k] = 1 => (k \in DOMAIN keyStorage /\ ~keyStorage[k].accessed)
            /\ sinceAccess[k] >= 2 => k \notin DOMAIN keyStorage
            /\ k \in DOMAIN keyStorage => keyStorage[k].cleanup = "none"

C6_Witness ==
    \E k \in DOMAIN sinceAccess :
        /\ CleanupOf(k.base.hookFn) = "none"
        /\ sinceAccess[k] = 2
        /\ k \notin DOMAIN keyStorage
        /\ lastCall.op = "cleanup"

IsCleanupStep == lastCall'.op = "cleanup" /\ clock' = clock

\* Whether the cleanup predicate of entry k answered true in this step.
PredicateTrue(k) ==
    IF keyStorage[k].cleanup = "custom"
    THEN k \in DOMAIN lastVotes' /\ lastVotes'[k] = "true"
    ELSE clock < ExpiryOrZero(keyStorage[k].state)

\* C7: an unaccessed entry stays in the store, untouched, across every
\* cleanupHookState at which its predicate returns true, and is deleted at the
\* first one at which it is unaccessed and the predicate returns anything else.
C7_PredicateDecidesSurvival ==
    [][IsCleanupStep =>
        \A k \in DOMAIN keyStorage :
            (~keyStorage[k].accessed /\ keyStorage[k].cleanup # "none") =>
                IF PredicateTrue(k)
                THEN k \in DOMAIN keyStorage' /\ keyStorage'[k] = keyStorage[k]
                ELSE k \notin DOMAIN keyStorage']_vars

C7_Witness ==
    \E k \in DOMAIN keyStorage :
        /\ keyStorage[k].cleanup = "custom"
        /\ ~keyStorage[k].accessed
        /\ sinceAccess[k] = 2
        /\ lastCall.op = "cleanup"
        /\ k \in DOMAIN lastVotes /\ lastVotes[k] = "true"

\* C8: the calls made without a discriminator from one call site within one
\* frame resolve to pairwise distinct entries, the k-th to the entry keyed by
\* ordinal k, all of them in the store; a useThrottle call that creates its
\* entry returns true.
C8_OrdinalKeyedEntries ==
    /\ \A b \in BaseKeys :
        /\ \A i, j \in 1..Len(frameKeys[b]) : i # j => frameKeys[b][i] # frameKeys[b][j]
        /\ \A i \in 1..Len(frameKeys[b]) : frameKeys[b][i] \in DOMAIN keyStorage
        /\ b \notin frameFalsy =>
              \A i \in 1..Len(frameKeys[b]) :
                  frameKeys[b][i] = [base |-> b, extra |-> OrdStr(i)]
    /\ (lastCall.op = "call" /\ lastCall.base.hookFn = "useThrottle" /\ lastCall.created)
          => lastCall.ret

C8_Witness ==
    /\ lastCall.op = "call" /\ lastCall.base.hookFn = "useThrottle"
    /\ lastCall.identifier = Undefined
    /\ lastCall.created /\ lastCall.ret
    /\ Len(frameKeys[lastCall.base]) >= 2
    /\ lastCall.key.extra = OrdStr(2)

\* C23: after every cleanupHookState the store holds exactly the entries
\* that just before were accessed or had a cleanup predicate answering true
\* on their state, each with its state object unchanged; no entry that was
\* unaccessed and without a vote to survive remains.
C23_CleanupKeepsExactlyTheLive ==
    [][IsCleanupStep =>
          /\ DOMAIN keyStorage' =
                {k \in DOMAIN keyStorage :
                    \/ keyStorage[k].accessed
                    \/ keyStorage[k].cleanup # "none" /\ PredicateTrue(k)}
          /\ \A k \in DOMAIN keyStorage' :
                /\ keyStorage'[k].state = keyStorage[k].state
                /\ keyStorage'[k].cleanup = keyStorage[k].cleanup]_vars

C23_Witness ==
    /\ lastCall.op = "cleanup"
    /\ \E k \in DOMAIN keyStorage : k \in DOMAIN lastVotes /\ lastVotes[k] = "true"
    /\ \E k \in DOMAIN sinceAccess : sinceAccess[k] = 2 /\ k \notin DOMAIN keyStorage

\* C26: a cleanupHookState calls the cleanup predicate of exactly the entries
\* that are unaccessed and have one, never that of an accessed entry; an entry
\* its predicate has kept is unaccessed at the next cleanupHookState too, so
\* its predicate is called again, until it answers something other than true
\* or the entry is accessed.
C26_PredicateCalledWhenUnaccessed ==
    [][IsCleanupStep =>
          /\ \A k \in DOMAIN keyStorage :
                k \in lastEvaluated' <=>
                    (~keyStorage[k].accessed /\ keyStorage[k].cleanup # "none")
          /\ lastEvaluated' \subseteq DOMAIN keyStorage
          /\ \A k \in lastEvaluated' :
                k \in DOMAIN keyStorage' =>
                    (~keyStorage'[k].accessed /\ keyStorage'[k].cleanup # "none")]_vars

C26_Witness ==
    /\ lastCall.op = "cleanup"
    /\ \E k \in lastEvaluated :
          /\ k \in DOMAIN keyStorage
          /\ keyStorage[k].cleanup = "custom"
          /\ sinceAccess[k] = 2
    /\ \E k \in DOMAIN keyStorage : k \notin lastEvaluated

(***************************************************************************)
(* Claims about PluginRegistry and App.addPlugins, checked under SpecApp   *)
(***************************************************************************)
\* The most recent add found the class registered, by another instance
\* whose constructor arguments are structurally equal.
EqualArgsDuplicate ==
    /\ appLast.existing # 0
    /\ appLast.existing # appLast.obj
    /\ deepEqual(objs[appLast.obj].args, objs[appLast.existing].args)

\* C4: registering a plugin that is already registered, with structurally
\* equal arguments, never raises an error whoever owns the two registrations,
\* and the builder of the registered plugin is invoked at most once.
C4_EqualArgsNeverRaises ==
    EqualArgsDuplicate =>
        /\ appLast.err # "duplicateThirdPartyPlugin"
        /\ objs[appLast.existing].builds <= 1

\* C9: at the step on which buildAll leaves its while loop and returns,
\* every plugin in the registry has built = true.
C9_BuildAllReturnsAllBuilt ==
    [][(appPc = "buildAll" /\ appPc' = "runAll") =>
          \A c \in DOMAIN registry : objs[registry[c]].built]_vars

\* C10: within a pass of buildAll no third-party plugin is built before a
\* user-owned plugin.
C10_UserBuiltBeforeThirdParty ==
    \A i, j \in 1..Len(passLog) :
        (i < j /\ passLog[i] = "third-party") => passLog[j] # "user"

\* C12: in every step, a plugin instance that has built = true keeps it, and
\* no instance has had its builder invoked more than once.
C12_BuiltIsALatch ==
    [][/\ \A o \in 1..Len(objs) : objs[o].built => objs'[o].built
       /\ \A o \in 1..Len(objs') : objs'[o].builds <= 1]_vars

\* C22: every plugin accepted by addPlugins has its builder invoked exactly
\* once, whenever it was added: once run() has returned and no builder is
\* on the stack, each plugin of the registry has been built once.
C22_AcceptedBuiltExactlyOnce ==
    (appPc = "running" /\ appStack = <<>>) =>
        \A c \in DOMAIN registry : objs[registry[c]].builds = 1

\* The same for the plugins added from a system that scheduler.runAll()
\* executes inside run(): none is left without its builder invoked.
AddedDuringRunAllIsBuilt ==
    [][(appPc = "runAll" /\ appPc' = "running") =>
          \A c \in DOMAIN registry : objs[registry[c]].builds >= 1]_vars

AllBuilt == \A c \in DOMAIN registry : objs[registry[c]].built

\* C27: buildAll invoked on a registry in which every record has
\* built = true (a second run(), or after plugins were built one by one)
\* returns, and invokes no builder on the way.
C27_BuildAllIdempotent ==
    (appPc = "buildAll" /\ builtCount = 0 /\ AllBuilt) ~> (appPc = "runAll")

(***************************************************************************)
(* Claims about phases (checked under SpecPhases)                          *)
(***************************************************************************)
UpdateOrder == pipelines["update"]

IsCustom(phase) == \E k \in 1..Len(CustomPhases) : CustomPhases[k] = phase

\* C16: addPhaseAfter with anchor LAST or ABSOLUTE_LAST, and addPhaseBefore
\* with anchor FIRST or ABSOLUTE_FIRST, raise an error and leave every
\* pipeline's order unchanged; a call with any other anchor raises no error.
C16_ProtectedAnchorsRejected ==
    [][/\ phaseLast'.raised <=>
            \/ phaseLast'.op = "after" /\ phaseLast'.anchor \in {"LAST", "ABSOLUTE_LAST"}
            \/ phaseLast'.op = "before" /\ phaseLast'.anchor \in {"FIRST", "ABSOLUTE_FIRST"}
       /\ phaseLast'.raised => pipelines' = pipelines
       /\ ~phaseLast'.raised => InPipeline(pipelines'["update"] \o pipelines'["startup"],
                                           phaseLast'.phase)]_vars

C16_Witness ==
    /\ phaseLast.raised
    /\ phaseLast.op = "before"
    /\ phaseLast.anchor = "ABSOLUTE_FIRST"
    /\ CustomCount = 1

\* C17: after any successful addPhase calls no custom phase lies between
\* ABSOLUTE_FIRST and FIRST or between LAST and ABSOLUTE_LAST, so FIRST runs
\* before and LAST after every other user-visible update phase.
C17_FirstAndLastEnclose ==
    /\ PhasePos(UpdateOrder, "FIRST") = PhasePos(UpdateOrder, "ABSOLUTE_FIRST") + 1
    /\ PhasePos(UpdateOrder, "ABSOLUTE_LAST") = PhasePos(UpdateOrder, "LAST") + 1

\* C18: after any addPhase calls, successful or rejected, ABSOLUTE_FIRST is
\* the first and ABSOLUTE_LAST the last phase of the update pipeline.
C18_AbsolutePhasesAtTheEnds ==
    /\ UpdateOrder[1] = "ABSOLUTE_FIRST"
    /\ UpdateOrder[Len(UpdateOrder)] = "ABSOLUTE_LAST"

C18_Witness ==
    /\ Len(UpdateOrder) = Len(UPDATE_PIPELINE) + 2
    /\ IsCustom(UpdateOrder[2])
    /\ IsCustom(UpdateOrder[Len(UpdateOrder) - 1])
    /\ phaseLast.raised

(***************************************************************************)
(* Claims about useThrottle and useThrottledMemo (checked under            *)
(* SpecThrottle)                                                           *)
(***************************************************************************)
IsThrottleCall ==
    /\ frameTotal' = frameTotal + 1
    /\ lastCall'.base.hookFn = "useThrottle"
    /\ lastCall'.identifier # Undefined

\* What C19 says of one useThrottle call with discriminator id, given when
\* the site last returned true for id.
ThrottleAsDocumented(id, ret, sec) ==
    /\ lastTrue[id] = NoTime => ret
    /\ ret /\ lastTrue[id] # NoTime => clock - lastTrue[id] >= sec
    /\ lastTrue[id] # NoTime /\ clock - lastTrue[id] >= sec => ret

\* C19: useThrottle(seconds, id) at a fixed call site with a fixed
\* discriminator returns true on its first call, any two calls that return
\* true are at least `seconds` apart, and a call made at least `seconds`
\* after the last true returns true, whatever cleanup did in between.
C19_ThrottleSpacing ==
    [][IsThrottleCall =>
          \A sec \in ThrottleSeconds :
              ThrottleAsDocumented(lastCall'.identifier, lastCall'.ret, sec)]_vars

\* The same for the discriminators that `if (identifier)` accepts.
ThrottleSpacingTruthy ==
    [][IsThrottleCall /\ Truthy(lastCall'.identifier) =>
          \A sec \in ThrottleSeconds :
              ThrottleAsDocumented(lastCall'.identifier, lastCall'.ret, sec)]_vars

IsMemoCall ==
    /\ frameTotal' = frameTotal + 2
    /\ lastCall'.base.hookFn = "useThrottledMemo"

\* C20: while the throttle window of its latest factory invocation has not
\* expired, useThrottledMemo returns the value that invocation produced,
\* also after frames in which the call site was not executed; the factory
\* is invoked at most once every `seconds`.
C20_MemoKeepsValueInWindow ==
    [][IsMemoCall =>
          \A sec \in ThrottleSeconds :
              /\ memo'.made # "none" /\ clock < memo'.at + sec => memo'.ret = memo'.made
              /\ memo'.made # memo.made /\ memo.made # "none" => clock - memo.at >= sec]_vars

\* The factory is invoked at most once every `seconds`.
MemoFactorySpacing ==
    [][IsMemoCall =>
          \A sec \in ThrottleSeconds :
              memo'.made # memo.made /\ memo.made # "none" => clock - memo.at >= sec]_vars

(***************************************************************************)
(* Claims about hook entries over the frames (checked under SpecFrames)    *)
(***************************************************************************)
\* C24: right after every cleanupHookState every remaining entry has
\* accessed = false and every ordinal counter is reset, so that the k-th call
\* without a discriminator from a call site resolves to the entry the k-th
\* such call of the previous frame resolved to, whenever that entry exists.
C24_OrdinalsRestartEachFrame ==
    /\ lastCall.op = "cleanup" =>
          /\ \A k \in DOMAIN keyStorage : ~keyStorage[k].accessed
          /\ \A b \in DOMAIN frameCallCounts : frameCallCounts[b] = 0
    /\ \A b \in BaseKeys :
          \A k \in 1..Len(frameKeys[b]) :
              (k <= Len(prevFrameKeys[b]) /\ prevFrameKeys[b][k] \in DOMAIN keyStorage)
                  => frameKeys[b][k] = prevFrameKeys[b][k]

IsHookCall == frameTotal' = frameTotal + 1

\* C25: for a fixed hook function, call site and supplied discriminator d,
\* every call returns the state object the call before it returned, within a
\* frame and across frames, as long as the entry was kept by every cleanup in
\* between; only the call that creates the entry uses `initial`.
C25_SameObjectForSameDiscriminator ==
    [][(IsHookCall /\ lastCall'.identifier # Undefined) =>
          LET before == resolved[<<lastCall'.base, lastCall'.identifier>>]
          IN  before # NoKey =>
                 /\ lastCall'.key = before
                 /\ ~lastCall'.created
                 /\ lastCall'.base.hookFn # "useThrottle" =>
                        keyStorage'[before].state = keyStorage[before].state]_vars

\* C38: at one hook function and call site, an entry obtained with a
\* supplied discriminator is never one an unlabeled call of the frame
\* resolved to, and two different discriminators never resolve to one entry.
C38_DiscriminatorsKeepApart ==
    \A b \in BaseKeys : \A id \in Identifiers \ {Undefined} :
        resolved[<<b, id>>] # NoKey =>
            /\ \A k \in 1..Len(frameKeys[b]) : frameKeys[b][k] # resolved[<<b, id>>]
            /\ \A other \in Identifiers \ {Undefined, id} :
                  resolved[<<b, other>>] # resolved[<<b, id>>]

\* C39: a call with a supplied discriminator does not advance the call
\* site's ordinal counter, and returns the entry an earlier call of the frame
\* with that discriminator returned.
C39_SuppliedOverridesOrdinal ==
    [][(IsHookCall /\ lastCall'.identifier # Undefined) =>
          /\ frameCallCounts' = frameCallCounts
          /\ LET before == resolved[<<lastCall'.base, lastCall'.identifier>>]
             IN  (before \in DOMAIN keyStorage /\ keyStorage[before].accessed) =>
                     lastCall'.key = before]_vars

\* For a discriminator that passes `if (identifier)` the call does override
\* the ordinal.
TruthyOverridesOrdinal ==
    [][(IsHookCall /\ Truthy(lastCall'.identifier)) =>
          /\ frameCallCounts' = frameCallCounts
          /\ LET before == resolved[<<lastCall'.base, lastCall'.identifier>>]
             IN  (before \in DOMAIN keyStorage /\ keyStorage[before].accessed) =>
                     lastCall'.key = before]_vars

(***************************************************************************)
(* Claims about one useHookState call (checked under SpecEntries)          *)
(***************************************************************************)

\* C40: a useHookState call that finds its entry leaves the store as it was
\* except for accessed = true on that entry, whatever initial value and
\* cleanup predicate the call passes.
C40_ExistingEntryOnlyAccessed ==
    [][(IsHookCall /\ ~lastCall'.created) =>
          keyStorage' = [keyStorage EXCEPT ![lastCall'.key].accessed = TRUE]]_vars

C40_Witness ==
    /\ lastCall.op = "call" /\ ~lastCall.created
    /\ lastCall.initial # keyStorage[lastCall.key].state
    /\ lastCall.cleanup # keyStorage[lastCall.key].cleanup

(***************************************************************************)
(* Claims about hooks of systems on different events (under SpecSources)   *)
(***************************************************************************)

\* C37: whichever way the events interleave, the unlabeled call a system
\* makes once per run resolves to the same entry on every run, and the entry
\* is not deleted between two runs.
C37_OneEntryPerSystem ==
    [][IsHookCall =>
          /\ lastCall'.key.extra = OrdStr(1)
          /\ (lastCall'.key \in DOMAIN sinceAccess /\ sinceAccess[lastCall'.key] # 3) =>
                ~lastCall'.created]_vars

\* For the system bound to Heartbeat it is so.
HeartbeatSystemKeepsItsEntry ==
    [][(IsHookCall /\ lastCall'.base.hookFn = "useStorage") =>
          /\ lastCall'.key.extra = OrdStr(1)
          /\ (lastCall'.key \in DOMAIN sinceAccess /\ sinceAccess[lastCall'.key] # 3) =>
                ~lastCall'.created]_vars

\* ---- query.ts (part_009) and the ObserverPlugin (part_015) ----
\* The world holds the ids 1..MaxIds; only the presence of component C and of
\* pair(Previous, C) on them is modelled, not their values.
NoId == 0

\* id.set(C, value) on an id that does not have C, from any system or handler.
AddComponent(id) ==
    /\ UNCHANGED <<schedVars, hookVars, appVars, phaseVars, timingVars, frameVars, loopVars, utilVars>>
    /\ id \notin withC
    /\ withC' = withC \cup {id}
    /\ track' = [track EXCEPT ![id] = [reports |-> 0, syncs |-> 0,
                                       early |-> framePos = "before" /\ id \notin withPrev]]
    /\ UNCHANGED <<withPrev, observed, framePos, findRet>>

\* id.remove(C)
RemoveComponent(id) ==
    /\ UNCHANGED <<schedVars, hookVars, appVars, phaseVars, timingVars, frameVars, loopVars, utilVars>>
    /\ id \in withC
    /\ withC' = withC \ {id}
    /\ UNCHANGED <<withPrev, observed, framePos, track, findRet>>

\* The system that runs query().added(C).forEach(...) once in the update tick:
\* added() includes C, excludes pair(Previous, C) and tags C as Observed.
QueryAddedRuns ==
    /\ UNCHANGED <<schedVars, hookVars, appVars, phaseVars, timingVars, frameVars, loopVars, utilVars>>
    /\ framePos = "before"
    /\ observed' = TRUE
    /\ track' = [i \in DOMAIN track |->
                    IF i \in withC \ withPrev /\ track[i].reports < 2
                    THEN [track[i] EXCEPT !.reports = @ + 1]
                    ELSE track[i]]
    /\ framePos' = "after"
    /\ UNCHANGED <<withC, withPrev, findRet>>

\* syncObserved in ABSOLUTE_LAST, for the observed component C: the ids with C
\* and no pair get the pair, the ids with the pair and no C lose it.
syncObserved ==
    /\ UNCHANGED <<schedVars, hookVars, appVars, phaseVars, timingVars, frameVars, loopVars, utilVars>>
    /\ framePos = "after"
    /\ withPrev' = IF observed THEN withC ELSE withPrev
    /\ track' = [i \in DOMAIN track |->
                    IF i \in withC /\ track[i].syncs < 2
                    THEN [track[i] EXCEPT !.syncs = @ + 1]
                    ELSE track[i]]
    /\ framePos' = "before"
    /\ UNCHANGED <<withC, observed, findRet>>

\* The ids a query yields, in iteration order, that pass the filters and the
\* predicate. A query without components yields every id of the world.
findHits(query, filter, pred) ==
    {i \in (IF query = "empty" THEN 1..MaxIds ELSE withC) : i \in filter /\ i \in pred}

firstOf(S) == IF S = {} THEN NoId ELSE CHOOSE i \in S : \A j \in S : i <= j

\* Query.find of src/src/query.ts: both branches are for loops that return.
findForOf(query, filter, pred) == firstOf(findHits(query, filter, pred))

\* Query.find of part_009: the branch of the query without components
\* returns from the forEach callback, then find returns undefined.
find(query, filter, pred) ==
    IF query = "empty" THEN NoId ELSE firstOf(findHits(query, filter, pred))

\* query().filter(f).find(p) or query(C).filter(f).find(p); filter and
\* predicate are given by the ids they accept.
FindCall ==
    /\ UNCHANGED <<schedVars, hookVars, appVars, phaseVars, timingVars, frameVars, loopVars, utilVars>>
    /\ \E query \in {"empty", "C"}, filter \in SUBSET (1..MaxIds), pred \in SUBSET (1..MaxIds) :
           findRet' = [called |-> TRUE, query |-> query,
                       hits |-> findHits(query, filter, pred),
                       ret |-> find(query, filter, pred)]
    /\ UNCHANGED <<withC, withPrev, observed, framePos, track>>

SpecQuery ==
    Init /\ [][\/ \E id \in 1..MaxIds : AddComponent(id)
              \/ \E id \in 1..MaxIds : RemoveComponent(id)
              \/ QueryAddedRuns
              \/ syncObserved
              \/ FindCall]_vars

(***************************************************************************)
(* Claims about queries (checked under SpecQuery)                          *)
(***************************************************************************)

\* C32: an addition of C to an id, with C still on the id, has been reported
\* by the query().added(C) of the update tick in at most one tick, and in
\* exactly one once two update ticks have ended since.
C32_AddReportedInExactlyOneTick ==
    \A i \in withC :
        /\ track[i].reports <= 1
        /\ track[i].syncs = 2 => track[i].reports = 1

\* It is so for the additions made before the querying system of the tick to
\* an id that does not carry pair(Previous, C).
EarlyAddReportedOnce ==
    \A i \in withC :
        track[i].early =>
            /\ track[i].reports <= 1
            /\ track[i].syncs >= 1 => track[i].reports = 1

\* C33: Query.find returns the first id of the query that passes the filters
\* and the predicate, and undefined only when there is none.
C33_FindReturnsFirstMatch ==
    findRet.called =>
        /\ findRet.hits = {} <=> findRet.ret = NoId
        /\ findRet.hits # {} =>
              findRet.ret \in findRet.hits /\ \A j \in findRet.hits : findRet.ret <= j

\* For a query with components it is so.
FindConformsWithComponents ==
    (findRet.called /\ findRet.query # "empty") => findRet.ret = firstOf(findRet.hits)

\* The Query.find of src/src/query.ts returns the first match for a query
\* without components too.
FindForOfConforms ==
    \A query \in {"empty", "C"}, filter \in SUBSET (1..MaxIds), pred \in SUBSET (1..MaxIds) :
        findForOf(query, filter, pred) = firstOf(findHits(query, filter, pred))

\* ---- util.ts deepEqual on argument tuples ----

\* The argument tuples: up to MaxTupleLen values, each a number, 0/0 or a
\* table of at most one of them.
EqTuples ==
    LET SeqsUpTo(S, n) == UNION {[1..k -> S] : k \in 0..n}
        primitives == {Num(1), Num(2), NaN}
        inner == primitives \cup {Tab(s) : s \in SeqsUpTo(primitives, 1)}
    IN  {Tab(s) : s \in SeqsUpTo(inner, MaxTupleLen)}

InitEqual ==
    /\ InitScheduler /\ InitHooks /\ InitApp("third-party") /\ InitPhases /\ InitTiming
    /\ InitFrames /\ InitLoop /\ InitWorld
    /\ eqA \in EqTuples
    /\ eqB \in EqTuples
    /\ eqRet = [called |-> FALSE, ab |-> FALSE, ba |-> FALSE, aa |-> FALSE]

\* deepEqual is called on the two tuples, both ways round, and on the first
\* with itself (a second tuple built from the same values).
DeepEqualCall ==
    /\ UNCHANGED <<schedVars, hookVars, appVars, phaseVars, timingVars, frameVars, loopVars, worldVars>>
    /\ ~eqRet.called
    /\ eqRet' = [called |-> TRUE, ab |-> deepEqual(eqA, eqB), ba |-> deepEqual(eqB, eqA),
                 aa |-> deepEqual(eqA, eqA)]
    /\ UNCHANGED <<eqA, eqB>>

SpecEqual == InitEqual /\ [][DeepEqualCall]_vars

(***************************************************************************)
(* Claims about the passes over the pipelines (checked under SpecLoop)     *)
(***************************************************************************)

PassEnds == stage # 0 /\ stage' = 0

\* C30: a Heartbeat pass over UPDATE_PIPELINE that began with
\* topoRuntimePlugin already built calls cleanupHookState exactly once, after
\* every system of FIRST..LAST of that pass; and nothing but runAll's and
\* Heartbeat's passes over UPDATE_PIPELINE ever calls it (no other RunService
\* event, not the startup pipeline).
C30_CleanupOncePerUpdateTick ==
    [][/\ (PassEnds /\ source = "Heartbeat" /\ topoBefore) => (cleanups' = 1 /\ ~late')
       /\ invokedBy' \subseteq {"runAll", "Heartbeat"}]_vars

C30_Witness ==
    /\ stage = 0 /\ source = "Heartbeat" /\ topoBefore /\ cleanups = 1
    /\ \E i, c \in 1..Len(graph) :
          /\ IsCleanup(graph[c]) /\ c < i
          /\ systems[graph[i]].callback = "sysA" /\ systems[graph[i]].phase = "UPDATE"
    /\ \E k \in 1..Len(graph) : systems[graph[k]].phase = "PRE_RENDER"

(***************************************************************************)
(* Claims about util.ts deepEqual (checked under SpecEqual)                *)
(***************************************************************************)

\* Structural equality: the same primitive value, or tables with the same
\* keys whose values are structurally equal.
RECURSIVE StructurallyEqual(_, _)
StructurallyEqual(a, b) ==
    IF a.type # b.type THEN FALSE
    ELSE IF a.type # "table" THEN RawEqualBits(a, b)
    ELSE /\ Len(a.items) = Len(b.items)
         /\ \A k \in 1..Len(a.items) : StructurallyEqual(a.items[k], b.items[k])

\* C31: deepEqual(a, b) is true exactly when a and b are structurally equal;
\* it is reflexive and symmetric, and tuples of different length are never
\* equal.
C31_DeepEqualIsStructural ==
    eqRet.called =>
        /\ eqRet.ab = StructurallyEqual(eqA, eqB)
        /\ eqRet.aa
        /\ eqRet.ab = eqRet.ba
        /\ Len(eqA.items) # Len(eqB.items) => ~eqRet.ab

RECURSIVE HasNaN(_)
HasNaN(a) == a.nan \/ \E k \in 1..Len(a.items) : HasNaN(a.items[k])

\* On tuples without 0/0 deepEqual is structural equality.
DeepEqualWithoutNaN ==
    (eqRet.called /\ ~HasNaN(eqA) /\ ~HasNaN(eqB)) =>
        /\ eqRet.ab = StructurallyEqual(eqA, eqB)
        /\ eqRet.aa
        /\ eqRet.ab = eqRet.ba
        /\ Len(eqA.items) # Len(eqB.items) => ~eqRet.ab

\* deepEqual is symmetric and never equates tuples of different length,
\* 0/0 or not; and it never equates what is structurally different.
DeepEqualSoundAndSymmetric ==
    eqRet.called =>
        /\ eqRet.ab => StructurallyEqual(eqA, eqB)
        /\ eqRet.ab = eqRet.ba
        /\ Len(eqA.items) # Len(eqB.items) => ~eqRet.ab

====
